---- MODULE Spec2Model ----
(***************************************************************************)
(* Model of the Xilinx Alveo QSPI flash controller driver (xrt_qspi).      *)
(*                                                                         *)
(* Sizes are scaled so that the flash content can be held explicitly:      *)
(*   - a u8 field of a flat address holds U8 = 4 values (256 in the code), *)
(*     so a flat 64-bit offset becomes a number below U8^8 and the 16MB    *)
(*     sector (24 address bits) becomes U8^3 = 64 bytes;                   *)
(*   - KB = 1 stands for 1024, so the pages are 4, 32 and 64 bytes.        *)
(* Byte counts of the wire protocol (header 4, read dummy 4, program       *)
(* ceiling 128, command lengths) and opcodes keep their values.            *)
(*                                                                         *)
(* Flash bytes are symbolic: Old(s, a) is the content slave s held at      *)
(* position a before the first call, Usr(k, i) is byte i of the user       *)
(* buffer of call k, FF is an erased byte and BAD is the result of         *)
(* programming a byte that was not erased.                                 *)
(***************************************************************************)
EXTENDS Integers, Sequences, FiniteSets, TLC

VARIABLES
    flash,            \* device: [slave -> [position -> byte]]
    ear,              \* device: extended address (sector) register of each slave
    wel,              \* device: write-enable latch of each slave
    busy,             \* device: status polls that still report busy, per slave
    nslaves,          \* number of flash chips wired to the controller
    flash_size,       \* struct xrt_qspi.flash_size
    qspi_fifo_depth,  \* struct xrt_qspi.qspi_fifo_depth
    vendor,           \* struct xrt_qspi.vendor (index into vendors[])
    qspi_curr_sector, \* struct xrt_qspi.qspi_curr_sector
    qspi_curr_slave,  \* struct xrt_qspi.qspi_curr_slave
    call,             \* the last client call: arguments, result and trace
    prev,             \* the client call before it
    ncalls,           \* number of client calls made so far
    io_lock,          \* struct xrt_qspi.io_lock: its holder, or "none"
    pc,               \* where each concurrent caller stands in its call
    plan,             \* per caller: its arguments and, once it holds the
                      \* lock, what its call does
    bus,              \* the transactions on the controller, in order, each
                      \* with its caller
    idcode,           \* device: the identification bytes the chip answers
    qspi_regs,        \* controller: its registers and FIFOs
    lowop             \* the last register-level operation or polling loop

vars == <<flash, ear, wel, busy, nslaves, flash_size, qspi_fifo_depth, vendor,
          qspi_curr_sector, qspi_curr_slave, call, prev, ncalls,
          io_lock, pc, plan, bus, idcode, qspi_regs, lowop>>

----------------------------------------------------------------------------
(* Scaling and program constants *)

U8 == 4
KB == 1

QSPI_CMD_PAGE_PROGRAM == 2
QSPI_CMD_STATUSREG_READ == 5
QSPI_CMD_WRITE_ENABLE == 6
QSPI_CMD_4KB_SUBSECTOR_ERASE == 32
QSPI_CMD_QUAD_WRITE == 50
QSPI_CMD_32KB_SUBSECTOR_ERASE == 82
QSPI_CMD_QUAD_READ == 107
QSPI_CMD_IDCODE_READ == 159
QSPI_CMD_EXTENDED_ADDRESS_REG_WRITE == 197
QSPI_CMD_SECTOR_ERASE == 216

MAX_NUM_OF_SLAVES == 2

QSPI_LARGE_PAGE_SIZE == 32 * KB
QSPI_HUGE_PAGE_SIZE == 64 * KB
QSPI_PAGE_SIZE == 4 * KB

\* 16 * 1024 * 1024: the bytes one sector (extended address) value spans
SECTOR_BYTES == U8 * U8 * U8
\* the range of loff_t / size_t (64 bits in the code)
WORD == SECTOR_BYTES * U8 * SECTOR_BYTES * U8
SLAVE_SHIFT == SECTOR_BYTES * U8 * SECTOR_BYTES

EFAULT == 14
EINVAL == 22
ENOSPC == 28
EOPNOTSUPP == 95
ETIMEDOUT == 110
\* marks a call that never returns (a loop that makes no progress)
HUNG == 1

\* QSPI_BUSY_WAIT polls at most this many times (1000 * 1000 / 5 in the code)
BusyRetries == 3
\* status polls a device answers "busy" after a program or an erase
BusyPolls == 1

Min(a, b) == IF a < b THEN a ELSE b

\* size_t subtraction: wraps around
SubSz(a, b) == (a - b + WORD) % WORD

\* x & y on two's complement integers
RECURSIVE BitAnd(_, _)
BitAnd(x, y) ==
    IF x = 0 \/ y = 0 THEN 0
    ELSE (x % 2) * (y % 2) + 2 * BitAnd(x \div 2, y \div 2)

\* ((x) & ((a) - 1)) == 0
IS_ALIGNED(x, a) == BitAnd(x, a - 1) = 0

QSPI_PAGE_ALIGN(off) == off - (off % QSPI_PAGE_SIZE)

QSPI_PAGE_OFFSET(off) == off % QSPI_PAGE_SIZE

round_up(x, y) == ((x + y - 1) \div y) * y

\* a round-up that leaves an aligned offset where it is
QSPI_PAGE_ROUNDUP_plain(offset) == round_up(offset, QSPI_PAGE_SIZE) % WORD

\* returns a size_t
QSPI_PAGE_ROUNDUP(offset) ==
    IF QSPI_PAGE_OFFSET(offset) # 0
    THEN round_up(offset, QSPI_PAGE_SIZE) % WORD
    ELSE (offset + QSPI_PAGE_SIZE) % WORD

----------------------------------------------------------------------------
(* Flat addresses *)

qspi_offset2faddr(addr) ==
    [slave    |-> (addr \div SLAVE_SHIFT) % U8,
     sector   |-> (addr \div SECTOR_BYTES) % U8,
     addr_lo  |-> addr % U8,
     addr_mid |-> (addr \div U8) % U8,
     addr_hi  |-> (addr \div (U8 * U8)) % U8]

qspi_faddr2offset(faddr) ==
    ((faddr.sector * U8 + faddr.addr_hi) * U8 + faddr.addr_mid) * U8
        + faddr.addr_lo + faddr.slave * SLAVE_SHIFT

is_valid_offset(off) ==
    qspi_faddr2offset([qspi_offset2faddr(off) EXCEPT !.slave = 0]) < flash_size

\* the 24 address bits a command carries
Addr24(faddr) == (faddr.addr_hi * U8 + faddr.addr_mid) * U8 + faddr.addr_lo

----------------------------------------------------------------------------
(* Symbolic bytes *)

Old(s, a) == <<"old", s, a>>
Usr(k, i) == <<"usr", k, i>>
FF == <<"FF">>
BAD == <<"bad">>

\* the len bytes of the user buffer of call k starting at index from
UsrBuf(k, from, len) == [i \in 1..len |-> Usr(k, from + i - 1)]

SubSeqLen(s, from, len) == [i \in 1..len |-> s[from + i]]

----------------------------------------------------------------------------
(* The flash chips behind the controller (the mock backing store).         *)
(* A context c carries the device state, the driver's cached fields, the   *)
(* fault to inject and the trace of one client call.                       *)

\* position inside the chip a command with address bits arg reaches: the
\* chip decodes its extended address register and wraps at its capacity
DevPos(c, arg) == (c.ear[c.slave] * SECTOR_BYTES + arg) % flash_size

EraseSize(op) ==
    CASE op = QSPI_CMD_4KB_SUBSECTOR_ERASE -> QSPI_PAGE_SIZE
      [] op = QSPI_CMD_32KB_SUBSECTOR_ERASE -> QSPI_LARGE_PAGE_SIZE
      [] op = QSPI_CMD_SECTOR_ERASE -> QSPI_HUGE_PAGE_SIZE
      [] OTHER -> 0

\* one command of len bytes arriving at the selected chip; pay is the
\* payload of a program command. Sets c.rx to what the chip sends back.
HwCommand(c, op, arg, pay, len) ==
    LET s == c.slave IN
    IF s >= nslaves
    THEN \* nobody drives the bus: all ones come back
         [c EXCEPT !.rx = IF op = QSPI_CMD_STATUSREG_READ THEN <<1>>
                          ELSE [i \in 1..(len - 8) |-> FF]]
    ELSE IF op = QSPI_CMD_STATUSREG_READ
    THEN [c EXCEPT !.rx = IF c.busy[s] > 0 THEN <<1>> ELSE <<0>>,
                   !.busy[s] = IF c.busy[s] > 0 THEN c.busy[s] - 1 ELSE 0]
    ELSE IF c.busy[s] > 0
    THEN \* a busy chip ignores everything but the status read
         [c EXCEPT !.rx = IF op = QSPI_CMD_QUAD_READ
                          THEN [i \in 1..(len - 8) |-> BAD] ELSE <<>>]
    ELSE IF op = QSPI_CMD_IDCODE_READ
    THEN \* manufacturer, memory type, capacity code, length of what follows
         [c EXCEPT !.rx = <<idcode.vid, 0, idcode.code, 0>>]
    ELSE IF op = QSPI_CMD_WRITE_ENABLE
    THEN [c EXCEPT !.wel[s] = TRUE, !.rx = <<>>]
    ELSE IF op = QSPI_CMD_EXTENDED_ADDRESS_REG_WRITE
    THEN [c EXCEPT !.ear[s] = IF c.wel[s] THEN arg ELSE c.ear[s],
                   !.wel[s] = FALSE, !.rx = <<>>]
    ELSE IF op = QSPI_CMD_QUAD_READ
    THEN [c EXCEPT !.rx = [i \in 1..(len - 8) |->
                              c.flash[s][(DevPos(c, arg) + i - 1) % flash_size]]]
    ELSE IF op \in {QSPI_CMD_QUAD_WRITE, QSPI_CMD_PAGE_PROGRAM}
    THEN IF ~c.wel[s] THEN [c EXCEPT !.rx = <<>>]
         ELSE LET p0 == DevPos(c, arg)
                  n == Len(pay)
                  hit(a) == ((a - p0 + flash_size) % flash_size) < n
                  idx(a) == ((a - p0 + flash_size) % flash_size) + 1
              IN [c EXCEPT !.flash[s] = [a \in DOMAIN c.flash[s] |->
                                   IF hit(a)
                                   THEN IF c.flash[s][a] = FF THEN pay[idx(a)] ELSE BAD
                                   ELSE c.flash[s][a]],
                           !.wel[s] = FALSE, !.busy[s] = BusyPolls, !.rx = <<>>]
    ELSE IF EraseSize(op) # 0
    THEN IF ~c.wel[s] THEN [c EXCEPT !.rx = <<>>]
         ELSE LET sz == EraseSize(op)
                  p0 == DevPos(c, arg) - (DevPos(c, arg) % sz)
              IN [c EXCEPT !.flash[s] = [a \in DOMAIN c.flash[s] |->
                                   IF a >= p0 /\ a < p0 + sz THEN FF
                                   ELSE c.flash[s][a]],
                           !.wel[s] = FALSE, !.busy[s] = BusyPolls, !.rx = <<>>]
    ELSE [c EXCEPT !.rx = <<>>]

----------------------------------------------------------------------------
(* Transaction engine, seen from the command layer *)

\* whether the transaction about to be issued is the one the fault hits
FaultHits(c) ==
    /\ c.fault.at # 0
    /\ \/ c.ntx + 1 = c.fault.at
       \/ c.fault.dead /\ c.ntx + 1 >= c.fault.at

LogEntry(c, op, arg, pay, len, sent) ==
    [op |-> op, slave |-> c.slave, ear |-> IF c.slave < nslaves THEN c.ear[c.slave] ELSE 0,
     arg |-> arg, len |-> len, n |-> Len(pay), sent |-> sent, sec |-> c.sector]

\* the receive side of qspi_transaction once the command went out
transaction_rx(c, failed, need_output) ==
    IF failed
    THEN [c EXCEPT !.ret = IF need_output THEN -EINVAL ELSE 0, !.rx = <<>>]
    ELSE [c EXCEPT !.ret = 0]

\* qspi_transaction: reset FIFOs, check the slave, activate, tx, rx (or
\* drain), deactivate. A "reset" fault makes the FIFO reset time out; an
\* "rx" fault leaves the RX FIFO short after the command went out.
qspi_transaction(c, op, arg, pay, len, need_output) ==
    IF FaultHits(c) /\ c.fault.kind = "reset"
    THEN [c EXCEPT !.ntx = @ + 1, !.ret = -ETIMEDOUT, !.rx = <<>>,
                   !.log = Append(@, LogEntry(c, op, arg, pay, len, FALSE))]
    ELSE IF c.slave >= MAX_NUM_OF_SLAVES
    THEN [c EXCEPT !.ntx = @ + 1, !.ret = -EINVAL, !.rx = <<>>,
                   !.log = Append(@, LogEntry(c, op, arg, pay, len, FALSE))]
    ELSE IF len > qspi_regs.cap
    THEN \* the TX FIFO drops what does not fit: the command is cut short,
         \* the chip ignores it and the RX FIFO runs empty early
         [c EXCEPT !.ntx = @ + 1, !.ret = IF need_output THEN -EINVAL ELSE 0,
                   !.rx = <<>>,
                   !.log = Append(@, LogEntry(c, op, arg, pay, len, TRUE))]
    ELSE transaction_rx(
             HwCommand([c EXCEPT !.ntx = @ + 1,
                                 !.log = Append(@, LogEntry(c, op, arg, pay, len, TRUE))],
                       op, arg, pay, len),
             FaultHits(c), need_output)

----------------------------------------------------------------------------
(* Command layer. Each operator takes the context its caller reached and   *)
(* returns the context it leaves; c.ret is the code's return value.        *)

\* qspi_is_ready, after the status register came back
is_ready_status(c) ==
    IF c.ret # 0 \/ c.rx[1] = 1 THEN [c EXCEPT !.ret = -EINVAL] ELSE c

\* qspi_is_ready: sets c.ret to 0 when ready, to -EINVAL otherwise
qspi_is_ready(c) ==
    is_ready_status(qspi_transaction(c, QSPI_CMD_STATUSREG_READ, 0, <<>>, 2, TRUE))

\* QSPI_BUSY_WAIT(qspi_is_ready(flash)): ret is 0 unless timed out
RECURSIVE BusyWaitReady(_, _)
BusyWaitRetry(c, retry) ==
    IF c.ret = 0 THEN c ELSE BusyWaitReady(c, retry - 1)

BusyWaitReady(c, retry) ==
    IF retry = 0 THEN [c EXCEPT !.ret = -EINVAL]
    ELSE BusyWaitRetry(qspi_is_ready(c), retry)

qspi_wait_until_ready(c) == BusyWaitReady(c, BusyRetries)

qspi_enable_write(c) ==
    qspi_transaction(c, QSPI_CMD_WRITE_ENABLE, 0, <<>>, 1, FALSE)

\* a sector select that caches the sector whatever the write returned
set_sector_save_always(c, sector) == [c EXCEPT !.sector = sector]

\* qspi_set_sector, after the extended address register write
set_sector_save(c, sector) ==
    IF c.ret # 0 THEN c ELSE [c EXCEPT !.sector = sector]

\* qspi_set_sector, after the write enable
set_sector_ear(c, sector) ==
    IF c.ret # 0 THEN c
    ELSE set_sector_save(
             qspi_transaction(c, QSPI_CMD_EXTENDED_ADDRESS_REG_WRITE,
                              sector, <<>>, 2, FALSE),
             sector)

qspi_set_sector(c, sector) ==
    IF sector = c.sector THEN [c EXCEPT !.ret = 0]
    ELSE set_sector_ear(qspi_enable_write(c), sector)

\* qspi_setup_io_cmd_header: the header is opcode + 3 address bytes
qspi_setup_io_cmd_header(c, faddr) == qspi_set_sector(c, faddr.sector)

HEADER_LEN == 4
READ_DUMMY_LEN == 4
WRITE_MAX_LEN == 128

micron_write_cmd == QSPI_CMD_QUAD_WRITE
macronix_write_cmd == QSPI_CMD_PAGE_PROGRAM
VendorWriteCmd == IF vendor = 0 THEN micron_write_cmd ELSE macronix_write_cmd

----------------------------------------------------------------------------
(* Page I/O layer *)

\* copy_from_user / copy_to_user: the fault may make one copy fail
CopyFails(c) == c.fault.ucopy # 0 /\ c.ncopy + 1 = c.fault.ucopy

\* payload of one read transaction
fifo_rd_payload_len(cnt) ==
    Min(cnt, SubSz(SubSz(qspi_fifo_depth, HEADER_LEN), READ_DUMMY_LEN))

\* qspi_fifo_rd, after the transaction: the payload goes to the buffer
fifo_rd_copy(c, payload_len) ==
    IF c.ret # 0 THEN c
    ELSE [c EXCEPT !.data = @ \o c.rx, !.cnt = payload_len]

\* (variant: a read that first erases the 4KB it reads from)
fifo_rd_xfer_erase(c, faddr, payload_len) ==
    IF c.ret # 0 THEN c
    ELSE fifo_rd_copy(
             qspi_transaction(
                 qspi_transaction(qspi_enable_write(c), QSPI_CMD_4KB_SUBSECTOR_ERASE,
                                  Addr24(faddr), <<>>, HEADER_LEN, FALSE),
                 QSPI_CMD_QUAD_READ, Addr24(faddr), <<>>,
                 payload_len + HEADER_LEN + READ_DUMMY_LEN, TRUE),
             payload_len)

\* qspi_fifo_rd, after the header is set up
fifo_rd_xfer(c, faddr, payload_len) ==
    IF c.ret # 0 THEN c
    ELSE fifo_rd_copy(
             qspi_transaction(c, QSPI_CMD_QUAD_READ, Addr24(faddr), <<>>,
                              payload_len + HEADER_LEN + READ_DUMMY_LEN, TRUE),
             payload_len)

\* qspi_fifo_rd(flash, off, buf, &cnt): on success c.cnt is the payload
\* length and the payload is appended to c.data
qspi_fifo_rd(c, off, cnt) ==
    fifo_rd_xfer(
        qspi_setup_io_cmd_header(
            IF off + cnt > QSPI_PAGE_ROUNDUP(off)
            THEN [c EXCEPT !.warn = @ \cup {"page"}] ELSE c,
            qspi_offset2faddr(off)),
        qspi_offset2faddr(off), fifo_rd_payload_len(cnt))

\* a payload bounded by the FIFO only
fifo_wr_payload_len_fifo(cnt) == Min(cnt, SubSz(qspi_fifo_depth, HEADER_LEN))

\* payload of one program transaction
fifo_wr_payload_len(cnt) ==
    Min(Min(cnt, SubSz(qspi_fifo_depth, HEADER_LEN)), WRITE_MAX_LEN)

\* qspi_fifo_wr, after the wait for the program to finish
fifo_wr_done(c, payload_len) ==
    IF c.ret # 0 THEN [c EXCEPT !.ret = -EINVAL]
    ELSE [c EXCEPT !.cnt = payload_len]

\* qspi_fifo_wr, after the program transaction
fifo_wr_wait(c, payload_len) ==
    IF c.ret # 0 THEN c
    ELSE fifo_wr_done(qspi_wait_until_ready(c), payload_len)

\* qspi_fifo_wr, after the write enable
fifo_wr_xfer(c, faddr, buf, payload_len) ==
    IF c.ret # 0 THEN c
    ELSE fifo_wr_wait(
             qspi_transaction(c, VendorWriteCmd, Addr24(faddr),
                              SubSeqLen(buf, 0, payload_len),
                              payload_len + HEADER_LEN, FALSE),
             payload_len)

\* qspi_fifo_wr, after the header is set up
fifo_wr_enable(c, faddr, buf, payload_len) ==
    IF c.ret # 0 THEN c
    ELSE fifo_wr_xfer(qspi_enable_write(c), faddr, buf, payload_len)

\* qspi_fifo_wr(flash, off, buf, &cnt): buf holds the cnt bytes to program
qspi_fifo_wr(c, off, buf, cnt) ==
    fifo_wr_enable(qspi_setup_io_cmd_header(c, qspi_offset2faddr(off)),
                   qspi_offset2faddr(off), buf, fifo_wr_payload_len(cnt))

\* the loop of qspi_buf_rdwr; an iteration that moves nothing repeats for ever
RECURSIVE BufLoop(_, _, _, _, _, _)
BufLoopNext(c, buf, off, len, write, n) ==
    IF c.ret # 0 THEN c
    ELSE IF c.cnt = 0 THEN [c EXCEPT !.ret = HUNG]
    ELSE BufLoop(c, buf, off, len, write, n + c.cnt)

BufLoop(c, buf, off, len, write, n) ==
    IF ~(c.ret = 0 /\ n < len) THEN c
    ELSE BufLoopNext(
             IF write
             THEN qspi_fifo_wr(c, off + n, SubSeqLen(buf, n, len - n), len - n)
             ELSE qspi_fifo_rd(c, off + n, len - n),
             buf, off, len, write, n)

\* qspi_buf_rdwr: a read leaves the len bytes in c.data
qspi_buf_rdwr(c, buf, off, len, write) ==
    BufLoop([c EXCEPT !.ret = 0, !.data = <<>>], buf, off, len, write, 0)

\* switch (pagesz / onek): 0 when there is no erase command for the size
qspi_erase_cmd(pagesz) ==
    CASE pagesz \div KB = 4 -> QSPI_CMD_4KB_SUBSECTOR_ERASE
      [] pagesz \div KB = 32 -> QSPI_CMD_32KB_SUBSECTOR_ERASE
      [] pagesz \div KB = 64 -> QSPI_CMD_SECTOR_ERASE
      [] OTHER -> 0

\* qspi_page_erase, after the wait for the erase to finish
page_erase_done(c) ==
    IF c.ret # 0 THEN [c EXCEPT !.ret = -EINVAL] ELSE c

\* qspi_page_erase, after the erase transaction
page_erase_wait(c) ==
    IF c.ret # 0 THEN c ELSE page_erase_done(qspi_wait_until_ready(c))

\* qspi_page_erase, after the write enable
page_erase_xfer(c, cmd, faddr) ==
    IF c.ret # 0 THEN c
    ELSE page_erase_wait(
             qspi_transaction(c, cmd, Addr24(faddr), <<>>, HEADER_LEN, FALSE))

\* an erase that goes on to the write enable whatever the header set-up
\* returned
page_erase_enable_on(c, cmd, faddr) == page_erase_xfer(qspi_enable_write(c), cmd, faddr)

\* qspi_page_erase, after the header is set up
page_erase_enable(c, cmd, faddr) ==
    IF c.ret # 0 THEN c ELSE page_erase_xfer(qspi_enable_write(c), cmd, faddr)

\* qspi_page_erase, after the first wait
page_erase_header(c, cmd, faddr) ==
    IF c.ret # 0 THEN [c EXCEPT !.ret = -EINVAL]
    ELSE page_erase_enable(qspi_setup_io_cmd_header(c, faddr), cmd, faddr)

\* the WARN_ONs at the head of qspi_page_erase
page_erase_warn(off, pagesz) ==
    (IF qspi_erase_cmd(pagesz) = 0 \/ ~IS_ALIGNED(pagesz, KB) THEN {"erasecmd"} ELSE {})
    \cup (IF ~IS_ALIGNED(off, pagesz) THEN {"erasealign"} ELSE {})

qspi_page_erase(c, off, pagesz) ==
    page_erase_header(
        qspi_wait_until_ready([c EXCEPT !.warn = @ \cup page_erase_warn(off, pagesz)]),
        qspi_erase_cmd(pagesz), qspi_offset2faddr(off))

\* one page operation of a write: its path, arguments, the count it
\* consumes and where its transactions start in the trace
Step(c, path, off, req, used) ==
    [path |-> path, off |-> off, req |-> req, used |-> used, at |-> Len(c.log) + 1]

\* a front that ignores where in the window the write starts
rmw_front_aligned(off) == 0

\* the three parts of the 4KB window in qspi_page_rmw
rmw_front(off) == QSPI_PAGE_OFFSET(off)

rmw_mid(off, cnt) == Min(cnt, QSPI_PAGE_SIZE - rmw_front(off))

rmw_last(off, cnt) == QSPI_PAGE_SIZE - rmw_front(off) - rmw_mid(off, cnt)

\* qspi_page_rmw, after the erase: program the window from kbuf
rmw_program(c, kbuf, off, mid) ==
    IF c.ret # 0 THEN [c EXCEPT !.cnt = mid]
    ELSE [qspi_buf_rdwr(c, kbuf, QSPI_PAGE_ALIGN(off), QSPI_PAGE_SIZE, TRUE)
             EXCEPT !.cnt = mid]

\* a window that is programmed without being erased first
rmw_erase_none(c, kfront, k, uidx, off, mid) ==
    IF c.ret # 0 THEN [c EXCEPT !.cnt = mid]
    ELSE rmw_program(c, kfront \o UsrBuf(k, uidx, mid) \o c.data, off, mid)

\* a window that is erased whether or not its back bytes could be read
rmw_erase_regardless(c, kfront, k, uidx, off, mid) ==
    IF c.ret # 0
    THEN [qspi_page_erase(c, QSPI_PAGE_ALIGN(off), QSPI_PAGE_SIZE)
             EXCEPT !.cnt = mid, !.ret = c.ret]
    ELSE rmw_program(qspi_page_erase(c, QSPI_PAGE_ALIGN(off), QSPI_PAGE_SIZE),
                     kfront \o UsrBuf(k, uidx, mid) \o c.data, off, mid)

\* qspi_page_rmw, after the back of the window is read: erase the window;
\* kfront is the front part of kbuf, c.data the back part
rmw_erase(c, kfront, k, uidx, off, mid) ==
    IF c.ret # 0 THEN [c EXCEPT !.cnt = mid]
    ELSE rmw_program(qspi_page_erase(c, QSPI_PAGE_ALIGN(off), QSPI_PAGE_SIZE),
                     kfront \o UsrBuf(k, uidx, mid) \o c.data, off, mid)

\* qspi_page_rmw, after the front of the window is read (c.data): copy the
\* user's bytes and read the back
rmw_copy_and_read_last(c, k, uidx, off, cnt) ==
    IF c.ret # 0 THEN [c EXCEPT !.cnt = cnt]
    ELSE IF CopyFails(c) THEN [c EXCEPT !.ncopy = @ + 1, !.ret = -EFAULT, !.cnt = cnt]
    ELSE rmw_erase(
             IF rmw_last(off, cnt) # 0
             THEN qspi_buf_rdwr([c EXCEPT !.ncopy = @ + 1], <<>>,
                                QSPI_PAGE_ALIGN(off) + rmw_front(off) + rmw_mid(off, cnt),
                                rmw_last(off, cnt), FALSE)
             ELSE [c EXCEPT !.ncopy = @ + 1, !.ret = 0, !.data = <<>>],
             c.data, k, uidx, off, rmw_mid(off, cnt))

\* qspi_page_rmw(flash, ubuf, kbuf, off, &cnt): ubuf is the user buffer of
\* call k from index uidx on; on success c.cnt is the count taken from it
qspi_page_rmw(c, k, uidx, off, cnt) ==
    rmw_copy_and_read_last(
        IF rmw_front(off) # 0
        THEN qspi_buf_rdwr(
                 [c EXCEPT !.steps = Append(@, Step(c, "rmw", off, cnt, rmw_mid(off, cnt)))],
                 <<>>, QSPI_PAGE_ALIGN(off), rmw_front(off), FALSE)
        ELSE [c EXCEPT !.steps = Append(@, Step(c, "rmw", off, cnt, rmw_mid(off, cnt))),
                       !.ret = 0, !.data = <<>>],
        k, uidx, off, cnt)

\* a size choice that never goes beyond the 4KB page
qspi_get_page_io_size_smallest(off, sz) ==
    IF IS_ALIGNED(off, QSPI_PAGE_SIZE) /\ sz >= QSPI_PAGE_SIZE
    THEN QSPI_PAGE_SIZE
    ELSE 0

\* a size choice that forgets the alignment test of the 4KB page
qspi_get_page_io_size_unaligned(off, sz) ==
    IF IS_ALIGNED(off, QSPI_HUGE_PAGE_SIZE) /\ sz >= QSPI_HUGE_PAGE_SIZE
    THEN QSPI_HUGE_PAGE_SIZE
    ELSE IF IS_ALIGNED(off, QSPI_LARGE_PAGE_SIZE) /\ sz >= QSPI_LARGE_PAGE_SIZE
    THEN QSPI_LARGE_PAGE_SIZE
    ELSE IF sz >= QSPI_PAGE_SIZE
    THEN QSPI_PAGE_SIZE
    ELSE 0

qspi_get_page_io_size(off, sz) ==
    IF IS_ALIGNED(off, QSPI_HUGE_PAGE_SIZE) /\ sz >= QSPI_HUGE_PAGE_SIZE
    THEN QSPI_HUGE_PAGE_SIZE
    ELSE IF IS_ALIGNED(off, QSPI_LARGE_PAGE_SIZE) /\ sz >= QSPI_LARGE_PAGE_SIZE
    THEN QSPI_LARGE_PAGE_SIZE
    ELSE IF IS_ALIGNED(off, QSPI_PAGE_SIZE) /\ sz >= QSPI_PAGE_SIZE
    THEN QSPI_PAGE_SIZE
    ELSE 0

\* qspi_page_wr, after the erase: program thislen bytes of the user buffer
page_wr_program(c, k, uidx, off, thislen) ==
    IF c.ret # 0 THEN c
    ELSE [qspi_buf_rdwr(c, UsrBuf(k, uidx, thislen), off, thislen, TRUE)
             EXCEPT !.cnt = thislen]

\* qspi_page_wr, once the size is chosen
page_wr_erase(c, k, uidx, off, cnt, thislen) ==
    IF thislen = 0 THEN [c EXCEPT !.ret = -EOPNOTSUPP, !.cnt = cnt]
    ELSE IF CopyFails(c)
    THEN [c EXCEPT !.steps = Append(@, Step(c, "full", off, cnt, thislen)),
                   !.ncopy = @ + 1, !.cnt = thislen, !.ret = -EFAULT]
    ELSE page_wr_program(
             qspi_page_erase(
                 [c EXCEPT !.steps = Append(@, Step(c, "full", off, cnt, thislen)),
                           !.ncopy = @ + 1, !.cnt = thislen],
                 off, thislen),
             k, uidx, off, thislen)

\* qspi_page_wr(flash, ubuf, kbuf, off, &cnt)
qspi_page_wr(c, k, uidx, off, cnt) ==
    page_wr_erase(c, k, uidx, off, cnt, qspi_get_page_io_size(off, cnt))

----------------------------------------------------------------------------
(* Stream facade *)

\* an iteration that asks for all that is left
read_this_len_left(thisoff, left) == left

\* length of one iteration of qspi_do_read: up to the end of the 4KB page
read_this_len(thisoff, left) ==
    Min(left, SubSz(QSPI_PAGE_ROUNDUP(thisoff), thisoff))

RECURSIVE ReadLoop(_, _, _, _, _)
ReadLoopNext(c, off, n, cnt, thislen, kbuf) ==
    IF c.ret # 0 THEN [c EXCEPT !.total = cnt, !.data = kbuf]
    ELSE ReadLoop(c, off, n, cnt + thislen, kbuf \o c.data)

ReadLoop(c, off, n, cnt, kbuf) ==
    IF ~(c.ret = 0 /\ cnt < n) THEN [c EXCEPT !.total = cnt, !.data = kbuf]
    ELSE ReadLoopNext(
             qspi_buf_rdwr(c, <<>>, off + cnt, read_this_len(off + cnt, n - cnt), FALSE),
             off, n, cnt, read_this_len(off + cnt, n - cnt), kbuf)

\* mutex_lock(&flash->io_lock) and the slave selection that follows it
lock_and_select(c, off) ==
    [c EXCEPT !.slave = qspi_offset2faddr(off).slave, !.locked = TRUE]

\* the result of the first qspi_wait_until_ready of a call
io_ready(c) == IF c.ret # 0 THEN [c EXCEPT !.ret = -EINVAL] ELSE c

\* mutex_unlock(&flash->io_lock); a call whose loop never ends does not
\* get here
unlock_after(c) == IF c.ret = HUNG THEN c ELSE [c EXCEPT !.locked = FALSE]

\* qspi_do_read(flash, kbuf, n, off): c.data is kbuf, c.ret the result
qspi_do_read(c, n, off) ==
    unlock_after(ReadLoop(io_ready(qspi_wait_until_ready(lock_and_select(c, off))),
                       off, n, 0, <<>>))

\* what a client call returns: rv is the return value, pos the value of
\* *off afterwards, ubuf what reached the user buffer
Result(c, rv, pos, n, ubuf) == [c |-> c, rv |-> rv, pos |-> pos, n |-> n, ubuf |-> ubuf]

\* qspi_read, after qspi_do_read: copy_to_user and advance *off
read_copy_out(c, n, off) ==
    IF c.ret # 0 THEN Result(c, c.ret, off, n, <<>>)
    ELSE IF CopyFails(c)
    THEN Result([c EXCEPT !.ncopy = @ + 1], -EFAULT, off, n, <<>>)
    ELSE Result([c EXCEPT !.ncopy = @ + 1], n, off + n, n, c.data)

qspi_read(c, n, off) ==
    IF n = 0 \/ ~is_valid_offset(off) THEN Result(c, 0, off, n, <<>>)
    ELSE read_copy_out(qspi_do_read(c, Min(n, SubSz(flash_size, off)), off),
                       Min(n, SubSz(flash_size, off)), off)

\* qspi_kernel_read returns what qspi_do_read returns
kernel_read_return(c, n, off) ==
    Result(c, c.ret, off, n, IF c.ret = 0 THEN c.data ELSE <<>>)

qspi_kernel_read(c, n, off) == kernel_read_return(qspi_do_read(c, n, off), n, off)

\* qspi_write: the page path, and RMW when it answers -EOPNOTSUPP
write_page(c, k, uidx, off, cnt) ==
    IF c.ret = -EOPNOTSUPP THEN qspi_page_rmw(c, k, uidx, off, cnt) ELSE c

RECURSIVE WriteLoop(_, _, _, _, _)
\* a loop that goes on to the next offset after a page operation failed
WriteLoopNext_on(c, k, off, n, cnt) ==
    WriteLoop([c EXCEPT !.ret = 0], k, off, n, cnt + c.cnt)

WriteLoopNext(c, k, off, n, cnt) ==
    IF c.ret # 0 THEN [c EXCEPT !.total = cnt]
    ELSE WriteLoop(c, k, off, n, cnt + c.cnt)

WriteLoop(c, k, off, n, cnt) ==
    IF ~(c.ret = 0 /\ cnt < n) THEN [c EXCEPT !.total = cnt]
    ELSE WriteLoopNext(
             write_page(qspi_page_wr(c, k, cnt, off + cnt, n - cnt),
                        k, cnt, off + cnt, n - cnt),
             k, off, n, cnt)

\* qspi_write, after the loop: the return value and *off
write_return(c, n, off) ==
    IF c.ret # 0 THEN Result(c, c.ret, off, n, <<>>)
    ELSE Result(c, n, off + n, n, <<>>)

\* qspi_write(file, buf, n, off): buf is the user buffer of call k
qspi_write(c, k, n, off) ==
    IF n = 0 \/ ~is_valid_offset(off) THEN Result(c, -ENOSPC, off, n, <<>>)
    ELSE write_return(
             unlock_after(WriteLoop(io_ready(qspi_wait_until_ready(lock_and_select(c, off))),
                                 k, off, Min(n, SubSz(flash_size, off)), 0)),
             Min(n, SubSz(flash_size, off)), off)

----------------------------------------------------------------------------
(* The controller's registers and FIFOs, and what qspi_transaction does    *)
(* with them. A control or status register value is the set of the bit     *)
(* numbers that are set in it.                                             *)

QSPI_CR_ENABLED == 1
QSPI_CR_MASTER_MODE == 2
QSPI_CR_TXFIFO_RESET == 5
QSPI_CR_RXFIFO_RESET == 6
QSPI_CR_MANUAL_SLAVE_SEL == 7
QSPI_CR_TRANS_INHIBIT == 8
QSPI_CR_INIT_STATE ==
    {QSPI_CR_TRANS_INHIBIT, QSPI_CR_MANUAL_SLAVE_SEL, QSPI_CR_RXFIFO_RESET,
     QSPI_CR_TXFIFO_RESET, QSPI_CR_ENABLED, QSPI_CR_MASTER_MODE}

QSPI_SR_RX_EMPTY == 0
QSPI_SR_RX_FULL == 1
QSPI_SR_TX_EMPTY == 2
QSPI_SR_TX_FULL == 3
QSPI_SR_MODE_ERR == 4
QSPI_SR_CPOL_CPHA_ERR == 6
QSPI_SR_SLAVE_MODE_ERR == 7
QSPI_SR_MSB_ERR == 8
QSPI_SR_LOOPBACK_ERR == 9
QSPI_SR_CMD_ERR == 10
QSPI_SR_ERRS ==
    {QSPI_SR_CMD_ERR, QSPI_SR_LOOPBACK_ERR, QSPI_SR_MSB_ERR,
     QSPI_SR_SLAVE_MODE_ERR, QSPI_SR_CPOL_CPHA_ERR, QSPI_SR_MODE_ERR}

BIT(n) == 2 ^ n

SLAVE_NONE == -1
SLAVE_SELECT_NONE == BIT(MAX_NUM_OF_SLAVES) - 1
\* a register value with every bit set (a register is 2 * U8 bits wide here,
\* 32 bits in the code)
REG_ONES == BIT(2 * U8) - 1

\* the controller after qspi_set_ctrl(QSPI_CR_INIT_STATE) of an attach and
\* with nothing in its FIFOs; cap is the depth the FIFOs really have
Regs(cap) ==
    [ctrl |-> QSPI_CR_INIT_STATE \ {QSPI_CR_TXFIFO_RESET, QSPI_CR_RXFIFO_RESET},
     slave |-> SLAVE_SELECT_NONE, txn |-> 0, rxn |-> 0, err |-> {}, cap |-> cap,
     trace |-> <<>>]

\* one access to a register that changes the controller: the register (the
\* control register, the slave-select register, the data-transmit or the
\* data-receive register) and the value written
RegAccess(reg, ctrl, val) == [reg |-> reg, ctrl |-> ctrl, val |-> val]

\* h.trace holds the accesses of the operation under way, in order
reg_write(h, reg, ctrl, val) ==
    [h EXCEPT !.trace = Append(@, RegAccess(reg, ctrl, val))]

\* the slave lines the slave-select register drives low (selects)
Selected(h) ==
    {i \in 0..(MAX_NUM_OF_SLAVES - 1) : (h.slave \div BIT(i)) % 2 = 0}

qspi_get_status(h) ==
    h.err \cup (IF h.rxn = 0 THEN {QSPI_SR_RX_EMPTY} ELSE {})
          \cup (IF h.rxn = h.cap THEN {QSPI_SR_RX_FULL} ELSE {})
          \cup (IF h.txn = 0 THEN {QSPI_SR_TX_EMPTY} ELSE {})
          \cup (IF h.txn = h.cap THEN {QSPI_SR_TX_FULL} ELSE {})

\* what the hardware does when the reset bits are written: env.reset_ok
\* tells whether it carries the reset out
HwFifoReset(h, env) ==
    IF env.reset_ok THEN [h EXCEPT !.txn = 0, !.rxn = 0, !.err = {}] ELSE h

\* what the hardware does once transfers are no longer inhibited: it shifts
\* the TX FIFO out and takes one byte in for every byte out (env.rxdelta is
\* the number of bytes it takes in beyond that), stalls, or flags an error
HwShift(h, env) ==
    IF h.txn = 0 \/ env.drain = "stuck" THEN h
    ELSE IF env.drain = "err" THEN [h EXCEPT !.err = {QSPI_SR_CMD_ERR}]
    ELSE [h EXCEPT !.txn = 0,
                   !.rxn = Min(h.cap, IF h.rxn + h.txn + env.rxdelta < 0 THEN 0
                                      ELSE h.rxn + h.txn + env.rxdelta)]

\* the reset bits are strobes: they do not read back
set_ctrl_hw(h, ctrl, env) ==
    IF ctrl \cap {QSPI_CR_TXFIFO_RESET, QSPI_CR_RXFIFO_RESET} # {}
    THEN HwFifoReset([h EXCEPT !.ctrl = ctrl \ {QSPI_CR_TXFIFO_RESET,
                                                QSPI_CR_RXFIFO_RESET}], env)
    ELSE IF QSPI_CR_TRANS_INHIBIT \notin ctrl
    THEN HwShift([h EXCEPT !.ctrl = ctrl], env)
    ELSE [h EXCEPT !.ctrl = ctrl]

qspi_set_ctrl(h, ctrl, env) == set_ctrl_hw(reg_write(h, "cr", ctrl, 0), ctrl, env)

\* the value qspi_activate_slave writes into the slave-select register
slave_select_value(index) ==
    IF index = SLAVE_NONE THEN SLAVE_SELECT_NONE ELSE REG_ONES - BIT(index)

qspi_activate_slave(h, index) ==
    [reg_write(h, "ssr", {}, slave_select_value(index))
        EXCEPT !.slave = slave_select_value(index)]

\* a byte pushed into a full TX FIFO is lost
qspi_send8(h) == [reg_write(h, "dtr", {}, 0) EXCEPT !.txn = Min(h.cap, h.txn + 1)]

qspi_read8(h) ==
    [reg_write(h, "drr", {}, 0) EXCEPT !.rxn = IF h.rxn > 0 THEN h.rxn - 1 ELSE 0]

qspi_has_err(h) == qspi_get_status(h) \cap QSPI_SR_ERRS # {}

RECURSIVE BusyWaitLoop(_, _)
BusyWaitLoop(retry, condition) ==
    IF retry # 0 /\ ~condition THEN BusyWaitLoop(retry - 1, condition)
    ELSE retry = 0

\* QSPI_BUSY_WAIT on a status that has settled by the time it is polled:
\* TRUE when it timed out
QSPI_BUSY_WAIT(condition) == BusyWaitLoop(BusyRetries, condition)

FifoEmpty(h) ==
    qspi_get_status(h) \cap {QSPI_SR_TX_FULL, QSPI_SR_RX_FULL,
                             QSPI_SR_TX_EMPTY, QSPI_SR_RX_EMPTY}
        = {QSPI_SR_TX_EMPTY, QSPI_SR_RX_EMPTY}

\* a reset that writes the reset bits whatever the status shows
qspi_reset_fifo_always(h, env) ==
    [h |-> qspi_set_ctrl(h, h.ctrl \cup {QSPI_CR_TXFIFO_RESET, QSPI_CR_RXFIFO_RESET}, env),
     ret |-> 0]

reset_fifo_wait(h) ==
    [h |-> h, ret |-> IF QSPI_BUSY_WAIT(FifoEmpty(h)) THEN -ETIMEDOUT ELSE 0]

qspi_reset_fifo(h, env) ==
    IF FifoEmpty(h) THEN [h |-> h, ret |-> 0]
    ELSE reset_fifo_wait(qspi_set_ctrl(h, h.ctrl \cup {QSPI_CR_TXFIFO_RESET,
                                                      QSPI_CR_RXFIFO_RESET}, env))

RECURSIVE tx_fill(_, _)
tx_fill(h, len) == IF len = 0 THEN h ELSE tx_fill(qspi_send8(h), len - 1)

tx_stop(h, ctrl, env) ==
    [h |-> h, ret |-> IF qspi_has_err(h) THEN -EINVAL ELSE 0]

tx_wait(h, ctrl, env) ==
    IF QSPI_BUSY_WAIT(qspi_get_status(h) \cap ({QSPI_SR_TX_EMPTY} \cup QSPI_SR_ERRS) # {})
    THEN [h |-> h, ret |-> -ETIMEDOUT]
    ELSE tx_stop(qspi_set_ctrl(h, ctrl \cup {QSPI_CR_TRANS_INHIBIT}, env), ctrl, env)

tx_start(h, ctrl, env) ==
    tx_wait(qspi_set_ctrl(h, ctrl \ {QSPI_CR_TRANS_INHIBIT}, env), ctrl, env)

qspi_tx(h, len, env) ==
    tx_start(tx_fill(qspi_set_ctrl(h, h.ctrl \cup {QSPI_CR_TRANS_INHIBIT}, env), len),
             h.ctrl, env)

\* an error the hardware flags after the transmit was found clean
HwLateErr(h, env) ==
    IF env.rxerr THEN [h EXCEPT !.err = {QSPI_SR_CMD_ERR}] ELSE h

RECURSIVE rx_pull(_, _)
rx_pull(h, len) ==
    IF len = 0
    THEN [h |-> h, ret |-> IF QSPI_SR_RX_EMPTY \notin qspi_get_status(h) THEN -EINVAL
                           ELSE IF qspi_has_err(h) THEN -EINVAL ELSE 0]
    ELSE IF QSPI_SR_RX_EMPTY \in qspi_get_status(h)
    THEN [h |-> h, ret |-> -EINVAL]
    ELSE rx_pull(qspi_read8(h), len - 1)

qspi_rx(h, len) == rx_pull(h, len)

\* the result of a transaction: the registers, the value returned and
\* whether a slave was activated
TxResult(h, ret, activated) ==
    [h |-> h, ret |-> ret, activated |-> activated, pulled |-> FALSE,
     rxret |-> 0, rxn |-> 0, rxerr |-> FALSE]

\* r is what qspi_rx gave; kept with the result: that qspi_rx was called,
\* what it returned, the bytes the RX FIFO held when it was called and
\* whether error bits were set when it was through
transaction_done(r, need_output, rxn) ==
    [TxResult(qspi_activate_slave(r.h, SLAVE_NONE),
              IF need_output THEN r.ret ELSE 0, TRUE)
     EXCEPT !.pulled = TRUE, !.rxret = r.ret, !.rxn = rxn,
            !.rxerr = qspi_has_err(r.h)]

transaction_pull(h, len, need_output) ==
    transaction_done(qspi_rx(h, len), need_output, h.rxn)

transaction_rx_regs(r, len, need_output, env) ==
    IF r.ret # 0 THEN TxResult(r.h, r.ret, TRUE)
    ELSE transaction_pull(HwLateErr(r.h, env), len, need_output)

\* a transaction that activates whatever slave index it is given
transaction_tx_norange(r, slave, len, need_output, env) ==
    IF r.ret # 0 THEN TxResult(r.h, r.ret, FALSE)
    ELSE transaction_rx_regs(qspi_tx(qspi_activate_slave(r.h, slave), len, env),
                             len, need_output, env)

transaction_tx(r, slave, len, need_output, env) ==
    IF r.ret # 0 THEN TxResult(r.h, r.ret, FALSE)
    ELSE IF slave >= MAX_NUM_OF_SLAVES THEN TxResult(r.h, -EINVAL, FALSE)
    ELSE transaction_rx_regs(qspi_tx(qspi_activate_slave(r.h, slave), len, env),
                             len, need_output, env)

\* qspi_transaction on the registers, for a command of len bytes
qspi_transaction_regs(h, slave, len, need_output, env) ==
    transaction_tx(qspi_reset_fifo([h EXCEPT !.trace = <<>>], env),
                   slave, len, need_output, env)

\* hardware that does what it should
EnvOk == [reset_ok |-> TRUE, drain |-> "ok", rxdelta |-> 0, rxerr |-> FALSE]

NoLowOp ==
    [kind |-> "none", slave |-> 0, len |-> 0, need_output |-> FALSE,
     env |-> EnvOk,
     ret |-> 0, activated |-> FALSE, pulled |-> FALSE, rxret |-> 0, rxn |-> 0,
     rxerr |-> FALSE,
     pc |-> "done", retry |-> 0, depth |-> 0, status |-> {}, timedout |-> FALSE,
     trace |-> <<>>]

----------------------------------------------------------------------------
(* Attach: vendor table *)

\* a table that takes code 0x18 for two sectors
micron_code2sectors_0x18(code) ==
    CASE code = 23 -> 1
      [] code = 24 -> 2
      [] code = 25 -> 2
      [] code = 32 -> 4
      [] code = 33 -> 8
      [] code = 34 -> 16
      [] OTHER -> 0

micron_code2sectors(code) ==
    CASE code = 23 -> 1
      [] code = 24 -> 1
      [] code = 25 -> 2
      [] code = 32 -> 4
      [] code = 33 -> 8
      [] code = 34 -> 16
      [] OTHER -> 0

Pow2(n) == CASE n = 0 -> 1 [] n = 1 -> 2 [] n = 2 -> 4 [] n = 3 -> 8 [] n = 4 -> 16 [] OTHER -> 0

macronix_code2sectors(code) ==
    IF code < 56 \/ code > 60 THEN 0 ELSE Pow2(code - 56)

Code2Sectors(v, code) ==
    IF v = 0 THEN micron_code2sectors(code) ELSE macronix_code2sectors(code)

\* vendors[]: the identification byte and the name of each supported vendor
vendors ==
    [i \in 0..1 |-> IF i = 0 THEN [vendor_id |-> 32, vendor_name |-> "micron"]
                    ELSE [vendor_id |-> 194, vendor_name |-> "macronix"]]

\* the sentinel qspi_controller_probe leaves in qspi_curr_sector (0xff)
SECTOR_NONE == U8 - 1

----------------------------------------------------------------------------
(* The state machine of client calls on an attached controller *)

NoFault == [at |-> 0, dead |-> FALSE, kind |-> "reset", ucopy |-> 0]

Ctx(fault) ==
    [flash |-> flash, ear |-> ear, wel |-> wel, busy |-> busy,
     sector |-> qspi_curr_sector, slave |-> qspi_curr_slave,
     ntx |-> 0, ncopy |-> 0, fault |-> fault, log |-> <<>>, steps |-> <<>>,
     ret |-> 0, rx |-> <<>>, cnt |-> 0, data |-> <<>>, total |-> 0,
     warn |-> {}, locked |-> FALSE]

NoCall == [op |-> "none", off |-> 0, n |-> 0, rv |-> 0, pos |-> 0, len |-> 0,
           ubuf |-> <<>>, log |-> <<>>, steps |-> <<>>, total |-> 0, warn |-> {},
           locked |-> FALSE, fault |-> NoFault, pre |-> <<>>, k |-> 0]

\* the state after a call that returned r; a call that never returns
\* keeps the lock, so no call comes after it
Return(op, off, n, fault, r) ==
    /\ ~call.locked
    /\ flash' = r.c.flash
    /\ ear' = r.c.ear
    /\ wel' = r.c.wel
    /\ busy' = r.c.busy
    /\ qspi_curr_sector' = r.c.sector
    /\ qspi_curr_slave' = r.c.slave
    /\ ncalls' = ncalls + 1
    /\ call' = [op |-> op, off |-> off, n |-> n, rv |-> r.rv, pos |-> r.pos,
                len |-> r.n, ubuf |-> r.ubuf, log |-> r.c.log, steps |-> r.c.steps,
                total |-> r.c.total, warn |-> r.c.warn, locked |-> r.c.locked,
                fault |-> fault, pre |-> flash, k |-> ncalls + 1]
    /\ prev' = call
    /\ UNCHANGED <<nslaves, flash_size, qspi_fifo_depth, vendor,
                   idcode, qspi_regs, lowop>>

\* one client call from entry to return, with no other caller around
QspiRead(off, n, fault) ==
    /\ Return("read", off, n, fault, qspi_read(Ctx(fault), n, off))
    /\ UNCHANGED <<io_lock, pc, plan, bus>>

QspiKernelRead(off, n, fault) ==
    /\ Return("kread", off, n, fault, qspi_kernel_read(Ctx(fault), n, off))
    /\ UNCHANGED <<io_lock, pc, plan, bus>>

QspiWrite(off, n, fault) ==
    /\ Return("write", off, n, fault, qspi_write(Ctx(fault), ncalls + 1, n, off))
    /\ UNCHANGED <<io_lock, pc, plan, bus>>

----------------------------------------------------------------------------
(* Concurrent callers. A caller runs the checks that come before the lock, *)
(* takes io_lock, issues its transactions one by one and unlocks. What it  *)
(* does under the lock is what the call does from the state it finds when  *)
(* it gets the lock.                                                       *)

Threads == {"read", "kread", "write"}

NoPlan == [off |-> 0, n |-> 0, r |-> Result(Ctx(NoFault), 0, 0, 0, <<>>)]

\* a lock that lets every caller through
mutex_is_free_always(holder) == TRUE

\* mutex_lock(&flash->io_lock) goes through when nobody holds the lock
mutex_is_free(holder) == holder = "none"

\* the call of caller t, from the state it finds
ThreadCall(t, off, n) ==
    CASE t = "read" -> qspi_read(Ctx(NoFault), n, off)
      [] t = "kread" -> qspi_kernel_read(Ctx(NoFault), n, off)
      [] t = "write" -> qspi_write(Ctx(NoFault), ncalls + 1, n, off)

\* transactions of caller t on the bus so far
Sent(t) == Cardinality({j \in 1..Len(bus) : bus[j].t = t})

\* caller t enters its call; qspi_read and qspi_write return before the
\* lock for an empty or out-of-range request
Enter(t, off, n) ==
    /\ pc[t] = "idle"
    /\ pc' = [pc EXCEPT ![t] =
                IF t # "kread" /\ (n = 0 \/ ~is_valid_offset(off))
                THEN "done" ELSE "lock"]
    /\ plan' = [plan EXCEPT ![t] = [NoPlan EXCEPT !.off = off, !.n = n]]
    /\ UNCHANGED <<flash, ear, wel, busy, nslaves, flash_size, qspi_fifo_depth,
                   vendor, qspi_curr_sector, qspi_curr_slave, call, prev, ncalls,
                   io_lock, bus, idcode, qspi_regs, lowop>>

MutexLock(t) ==
    /\ pc[t] = "lock"
    /\ mutex_is_free(io_lock)
    /\ io_lock' = t
    /\ pc' = [pc EXCEPT ![t] = "io"]
    /\ plan' = [plan EXCEPT ![t].r = ThreadCall(t, plan[t].off, plan[t].n)]
    /\ UNCHANGED <<flash, ear, wel, busy, nslaves, flash_size, qspi_fifo_depth,
                   vendor, qspi_curr_sector, qspi_curr_slave, call, prev, ncalls,
                   bus, idcode, qspi_regs, lowop>>

\* the next transaction of caller t
Transaction(t) ==
    /\ pc[t] = "io"
    /\ bus' = Append(bus, [t |-> t, e |-> plan[t].r.c.log[Sent(t) + 1]])
    /\ pc' = [pc EXCEPT ![t] =
                IF Sent(t) + 1 = Len(plan[t].r.c.log) THEN "unlock" ELSE "io"]
    /\ UNCHANGED <<flash, ear, wel, busy, nslaves, flash_size, qspi_fifo_depth,
                   vendor, qspi_curr_sector, qspi_curr_slave, call, prev, ncalls,
                   io_lock, plan, idcode, qspi_regs, lowop>>

\* caller t is through with the hardware: the device and the cached
\* fields are as its call left them
MutexUnlock(t) ==
    /\ pc[t] = "unlock"
    /\ ~plan[t].r.c.locked
    /\ Return(t, plan[t].off, plan[t].n, NoFault, plan[t].r)
    /\ io_lock' = "none"
    /\ pc' = [pc EXCEPT ![t] = "done"]
    /\ UNCHANGED <<plan, bus>>

----------------------------------------------------------------------------
(* Bounds and input sets *)

MaxCalls == 2
MaxLen == 9
MaxFront == 5
MaxFaultAt == 14
MaxDepth == 10

\* a flat offset from its slave byte, bits 32-55 and in-slave position
FlatOff(s, g, p) == s * SLAVE_SHIFT + g * SECTOR_BYTES * U8 + p

\* attached controllers: <<vendor, capacity code, FIFO depth, chips>>
Devices == { <<0, 25, 16, 2>>, <<1, 57, 12, 1>>, <<0, 24, 9, 2>> }

\* in-slave positions: around the start, the 32KB, 64KB (sector) and
\* capacity boundaries
Positions ==
    (0..MaxFront)
    \cup {QSPI_LARGE_PAGE_SIZE - 2, QSPI_LARGE_PAGE_SIZE, QSPI_LARGE_PAGE_SIZE + 1}
    \cup {SECTOR_BYTES - 3, SECTOR_BYTES - 1, SECTOR_BYTES, SECTOR_BYTES + 2}
    \cup {2 * SECTOR_BYTES - 2, 2 * SECTOR_BYTES, 2 * SECTOR_BYTES + 1}

Offsets ==
    {FlatOff(0, 0, p) : p \in Positions}
    \cup {FlatOff(1, 0, p) : p \in {1, SECTOR_BYTES - 3, SECTOR_BYTES, 2 * SECTOR_BYTES - 2}}
    \cup {FlatOff(0, 1, 1), FlatOff(2, 0, 1)}

Lens ==
    (0..MaxLen)
    \cup {QSPI_LARGE_PAGE_SIZE, QSPI_LARGE_PAGE_SIZE + 1,
          QSPI_HUGE_PAGE_SIZE, QSPI_HUGE_PAGE_SIZE + QSPI_PAGE_SIZE + 2}

\* the first call takes any of the inputs, a later one the same range
Inputs ==
    IF ncalls = 0 THEN Offsets \X Lens ELSE {<<call.off, call.n>>}

\* sequences of calls that move between sectors and slaves
OffsetsSeq ==
    {FlatOff(0, 0, 2), FlatOff(0, 0, SECTOR_BYTES), FlatOff(1, 0, SECTOR_BYTES),
     FlatOff(1, 0, 1)}

LensSeq == {3, QSPI_LARGE_PAGE_SIZE}

InputsSeq == OffsetsSeq \X LensSeq

\* calls that meet a fault: a transaction that fails (once, or from then
\* on), or a user copy that fails
Faults ==
    {[at |-> a, dead |-> d, kind |-> k, ucopy |-> 0] :
        a \in 1..MaxFaultAt, d \in BOOLEAN, k \in {"reset", "rx"}}
    \cup {[at |-> 0, dead |-> FALSE, kind |-> "reset", ucopy |-> u] : u \in 1..2}
    \cup {NoFault}

InputsFault ==
    IF ncalls = 0
    THEN {FlatOff(0, 0, 0), FlatOff(0, 0, QSPI_PAGE_SIZE - 1)}
            \X {2, QSPI_PAGE_SIZE + 2, 2 * QSPI_PAGE_SIZE}
    ELSE {<<call.off, call.n>>}

InitDevice(devs) ==
    /\ \E d \in devs :
         /\ vendor = d[1]
         /\ flash_size = Code2Sectors(d[1], d[2]) * SECTOR_BYTES
         /\ qspi_fifo_depth = d[3]
         /\ nslaves = d[4]
         /\ idcode = [vid |-> vendors[d[1]].vendor_id, code |-> d[2]]
    /\ flash = [s \in 0..(nslaves - 1) |-> [a \in 0..(flash_size - 1) |-> Old(s, a)]]
    /\ ear = [s \in 0..(nslaves - 1) |-> 0]
    /\ wel = [s \in 0..(nslaves - 1) |-> FALSE]
    /\ busy = [s \in 0..(nslaves - 1) |-> 0]
    /\ qspi_curr_sector = SECTOR_NONE
    /\ qspi_curr_slave = 0
    /\ call = NoCall
    /\ prev = NoCall
    /\ ncalls = 0
    /\ io_lock = "none"
    /\ pc = [t \in Threads |-> "idle"]
    /\ plan = [t \in Threads |-> NoPlan]
    /\ bus = <<>>
    /\ qspi_regs = Regs(qspi_fifo_depth)
    /\ lowop = NoLowOp

Init == InitDevice(Devices)

Next ==
    /\ ncalls < MaxCalls
    /\ \E in \in Inputs :
        \/ QspiRead(in[1], in[2], NoFault)
        \/ QspiKernelRead(in[1], in[2], NoFault)
        \/ QspiWrite(in[1], in[2], NoFault)

Spec == Init /\ [][Next]_vars

\* call sequences on the controller with two chips of two sectors
InitSeq == InitDevice({<<0, 25, 16, 2>>})

NextSeq ==
    /\ ncalls < MaxCalls
    /\ \E in \in InputsSeq :
        \/ QspiRead(in[1], in[2], NoFault)
        \/ QspiKernelRead(in[1], in[2], NoFault)
        \/ QspiWrite(in[1], in[2], NoFault)

SpecSeq == InitSeq /\ [][NextSeq]_vars

\* calls that meet a fault
InitFault == InitDevice({<<0, 24, 12, 1>>})

NextFault ==
    /\ ncalls < MaxCalls
    /\ \E in \in InputsFault :
       \E f \in (IF ncalls = 0 THEN Faults ELSE {NoFault}) :
        \/ QspiRead(in[1], in[2], f)
        \/ QspiKernelRead(in[1], in[2], f)
        \/ QspiWrite(in[1], in[2], f)

SpecFault == InitFault /\ [][NextFault]_vars

\* controllers whose FIFO is as shallow as attach lets through: the ID read
\* of qspi_get_ID takes 5 bytes
ID_READ_LEN == 5

InitFifo == InitDevice({<<0, 24, d, 1>> : d \in ID_READ_LEN..MaxDepth})

SpecFifo == InitFifo /\ [][NextSeq]_vars

\* a session read, a session write and a kernel read at the same time
InputsLock ==
    {FlatOff(0, 0, 1), FlatOff(0, 0, SECTOR_BYTES), FlatOff(0, 0, 2 * SECTOR_BYTES)}
        \X {0, 2}

NextLock ==
    \E t \in Threads :
        \/ \E in \in InputsLock : Enter(t, in[1], in[2])
        \/ MutexLock(t)
        \/ Transaction(t)
        \/ MutexUnlock(t)

SpecLock == InitSeq /\ [][NextLock]_vars

----------------------------------------------------------------------------
(* Transactions on the registers: any command length, either kind of       *)
(* transaction, and hardware that resets, shifts and flags errors or not   *)

\* hardware that does what it should, and hardware that goes wrong in one
\* way during a transaction: the FIFO reset has no effect, the TX FIFO does
\* not drain, an error is flagged while it drains, a byte too few or too
\* many comes in, an error is flagged after the transmit
Envs ==
    {EnvOk, [EnvOk EXCEPT !.reset_ok = FALSE], [EnvOk EXCEPT !.drain = "stuck"],
     [EnvOk EXCEPT !.drain = "err"], [EnvOk EXCEPT !.rxdelta = -1],
     [EnvOk EXCEPT !.rxdelta = 1], [EnvOk EXCEPT !.rxerr = TRUE]}

\* command lengths: the shortest commands, the ID read and one that
\* overruns the smallest FIFO
TxLens == {1, 2, ID_READ_LEN, MaxDepth}

TransactionReturn(slave, len, need_output, env, r) ==
    /\ qspi_regs' = [r.h EXCEPT !.trace = <<>>]
    /\ lowop' = [NoLowOp EXCEPT !.kind = "transaction", !.slave = slave,
                                !.trace = r.h.trace,
                                !.len = len, !.need_output = need_output,
                                !.env = env, !.ret = r.ret,
                                !.activated = r.activated, !.pulled = r.pulled,
                                !.rxret = r.rxret, !.rxn = r.rxn,
                                !.rxerr = r.rxerr]
    /\ UNCHANGED <<flash, ear, wel, busy, nslaves, flash_size, qspi_fifo_depth,
                   vendor, qspi_curr_sector, qspi_curr_slave, call, prev, ncalls,
                   io_lock, pc, plan, bus, idcode>>

QspiTransaction(slave, len, need_output, env) ==
    TransactionReturn(slave, len, need_output, env,
                      qspi_transaction_regs(qspi_regs, slave, len, need_output, env))

NextTx ==
    \E slave \in 0..MAX_NUM_OF_SLAVES, len \in TxLens, need_output \in BOOLEAN,
       env \in Envs :
        QspiTransaction(slave, len, need_output, env)

\* the smallest of the FIFOs of Devices
InitTx == InitDevice({<<0, 24, 9, 2>>})

SpecTx == InitTx /\ [][NextTx]_vars

----------------------------------------------------------------------------
(* Attach: qspi_controller_probe and qspi_get_ID on a controller that is   *)
(* not bound yet. p is the probe so far: the command-layer context c, the  *)
(* registers h and the fields of struct xrt_qspi the probe fills in.       *)

\* flash->vendor before qspi_get_ID resolved it (NULL)
NoVendor == -1

\* a lookup that falls back on the first entry of vendors[]
VendorIndex_first(id) ==
    IF id = vendors[1].vendor_id THEN 1 ELSE 0

\* the loop of qspi_get_ID over vendors[]
VendorIndex(id) ==
    IF id = vendors[0].vendor_id THEN 0
    ELSE IF id = vendors[1].vendor_id THEN 1
    ELSE NoVendor

\* the push loop of qspi_get_fifo_depth
RECURSIVE depth_push(_, _)
depth_push(h, depth) ==
    IF qspi_get_status(h) \cap ({QSPI_SR_TX_FULL} \cup QSPI_SR_ERRS) = {}
    THEN depth_push(qspi_send8(h), depth + 1)
    ELSE [h |-> h, depth |-> depth]

get_fifo_depth_restore(r, depth) == [h |-> r.h, depth |-> depth]

get_fifo_depth_check(d, ctrl, env) ==
    IF qspi_has_err(d.h) THEN [h |-> d.h, depth |-> 0]
    ELSE get_fifo_depth_restore(
             qspi_reset_fifo(qspi_set_ctrl(d.h, ctrl, env), env), d.depth)

get_fifo_depth_fill(r, env) ==
    IF r.ret # 0 THEN [h |-> r.h, depth |-> 0]
    ELSE get_fifo_depth_check(
             depth_push(qspi_set_ctrl(r.h, r.h.ctrl \cup {QSPI_CR_TRANS_INHIBIT}, env), 0),
             r.h.ctrl, env)

qspi_get_fifo_depth(h, env) == get_fifo_depth_fill(qspi_reset_fifo(h, env), env)

get_ID_size(p, code) ==
    [p EXCEPT !.flash_size = Code2Sectors(p.vendor, code) * SECTOR_BYTES,
              !.ret = IF Code2Sectors(p.vendor, code) * SECTOR_BYTES = 0
                      THEN -EINVAL ELSE 0]

get_ID_vendor(p) ==
    IF p.c.ret # 0 THEN [p EXCEPT !.ret = -EINVAL]
    ELSE IF VendorIndex(p.c.rx[1]) = NoVendor THEN [p EXCEPT !.ret = -EINVAL]
    ELSE get_ID_size([p EXCEPT !.vendor = VendorIndex(p.c.rx[1])], p.c.rx[3])

qspi_get_ID(p) ==
    get_ID_vendor([p EXCEPT !.c = qspi_transaction(p.c, QSPI_CMD_IDCODE_READ, 0,
                                                   <<>>, ID_READ_LEN, TRUE)])

\* (variant: line 1185 left out, the cache keeps the 0 of kzalloc)
probe_sector_keep(p) == p

probe_sector(p) ==
    IF p.ret # 0 THEN p ELSE [p EXCEPT !.c.sector = SECTOR_NONE]

probe_id(p) ==
    IF p.c.ret # 0 THEN [p EXCEPT !.ret = -EINVAL]
    ELSE probe_sector(qspi_get_ID(p))

probe_ready(p) ==
    IF p.depth = 0 THEN [p EXCEPT !.ret = -EINVAL]
    ELSE probe_id([p EXCEPT !.c = qspi_wait_until_ready(p.c)])

probe_depth(p, d) == probe_ready([p EXCEPT !.h = d.h, !.depth = d.depth])

qspi_controller_probe(c, h, env) ==
    probe_depth([c |-> [c EXCEPT !.slave = 0], h |-> h, depth |-> qspi_fifo_depth,
                 vendor |-> vendor, flash_size |-> flash_size, ret |-> 0],
                qspi_get_fifo_depth(qspi_set_ctrl(h, QSPI_CR_INIT_STATE, env), env))

\* qspi_probe: the state it leaves; when the probe failed it unbinds the
\* controller (qspi_remove) and no client call is served
ProbeReturn(fault, p) ==
    /\ ear' = p.c.ear
    /\ wel' = p.c.wel
    /\ busy' = p.c.busy
    /\ qspi_curr_sector' = p.c.sector
    /\ qspi_curr_slave' = p.c.slave
    /\ qspi_fifo_depth' = p.depth
    /\ vendor' = p.vendor
    /\ flash_size' = p.flash_size
    /\ qspi_regs' = [p.h EXCEPT !.trace = <<>>]
    /\ ncalls' = ncalls + 1
    /\ call' = [NoCall EXCEPT !.op = "probe", !.rv = p.ret, !.log = p.c.log,
                              !.fault = fault, !.k = ncalls + 1]
    /\ prev' = call
    /\ UNCHANGED <<flash, nslaves, io_lock, pc, plan, bus, idcode, lowop>>

QspiProbe(env, fault) ==
    /\ ncalls = 0
    /\ ProbeReturn(fault, qspi_controller_probe(Ctx(fault), qspi_regs, env))

\* the controller is bound to the driver: its attach went through
Attached == ncalls > 0 /\ (call.op = "probe" => call.rv = 0)

\* XRT_FLASH_GET_SIZE of qspi_leaf_call
QspiGetSize ==
    /\ ~call.locked
    /\ ncalls' = ncalls + 1
    /\ call' = [NoCall EXCEPT !.op = "get_size", !.rv = 0, !.len = flash_size,
                              !.k = ncalls + 1]
    /\ prev' = call
    /\ UNCHANGED <<flash, ear, wel, busy, nslaves, flash_size, qspi_fifo_depth,
                   vendor, qspi_curr_sector, qspi_curr_slave, io_lock, pc, plan,
                   bus, idcode, qspi_regs, lowop>>

\* the ID bytes a chip may answer: both vendors and two others, every
\* capacity code of the two tables and the codes around them
IdCodes ==
    [vid : {vendors[0].vendor_id, vendors[1].vendor_id, 1, 255},
     code : {c \in 0..255 : micron_code2sectors(c) > 0 \/ macronix_code2sectors(c) > 0}
             \cup {0, 22, 26, 31, 35, 55, 61, 255}]

\* the sectors the chip that answers id really has (one when the ID is not
\* in the tables)
ChipSectors(id) ==
    IF VendorIndex(id.vid) = NoVendor THEN 1
    ELSE IF Code2Sectors(VendorIndex(id.vid), id.code) = 0 THEN 1
    ELSE Code2Sectors(VendorIndex(id.vid), id.code)

\* before attach: the fields of struct xrt_qspi are zero, one chip is
\* wired, it may be busy, and the FIFOs may hold a stale byte or the
\* status an error
InitAttach ==
    /\ idcode \in IdCodes
    /\ nslaves = 1
    /\ flash = [s \in 0..0 |->
                  [a \in 0..(ChipSectors(idcode) * SECTOR_BYTES - 1) |-> Old(s, a)]]
    /\ ear = [s \in 0..0 |-> 0]
    /\ wel = [s \in 0..0 |-> FALSE]
    /\ busy \in [0..0 -> {0, 1, BusyRetries}]
    /\ vendor = NoVendor
    /\ flash_size = 0
    /\ qspi_fifo_depth = 0
    /\ qspi_curr_sector = 0
    /\ qspi_curr_slave = 0
    /\ call = NoCall
    /\ prev = NoCall
    /\ ncalls = 0
    /\ io_lock = "none"
    /\ pc = [t \in Threads |-> "idle"]
    /\ plan = [t \in Threads |-> NoPlan]
    /\ bus = <<>>
    /\ \E cap \in {ID_READ_LEN - 1, ID_READ_LEN, MaxDepth}, txn \in {0, 1},
          err \in {{}, {QSPI_SR_CMD_ERR}} :
         qspi_regs = [Regs(cap) EXCEPT !.txn = txn, !.err = err]
    /\ lowop = NoLowOp

InputsAttach == {<<0, 1>>, <<0, QSPI_PAGE_SIZE>>, <<SECTOR_BYTES, 2>>}

NextAttach ==
    \/ \E env \in {EnvOk, [EnvOk EXCEPT !.reset_ok = FALSE]},
          fault \in {NoFault, [NoFault EXCEPT !.at = 1, !.kind = "rx"],
                     [NoFault EXCEPT !.at = 2, !.kind = "rx"]} :
         QspiProbe(env, fault)
    \/ \E in \in InputsAttach :
         Attached /\ ncalls < MaxCalls /\ QspiRead(in[1], in[2], NoFault)
    \/ \E in \in InputsAttach :
         Attached /\ ncalls < MaxCalls /\ QspiWrite(in[1], in[2], NoFault)
    \/ Attached /\ ncalls < MaxCalls /\ QspiGetSize

SpecAttach == InitAttach /\ [][NextAttach]_vars

----------------------------------------------------------------------------
(* The loops that poll the hardware, one evaluation of the loop condition  *)
(* at a time. The status register returns any value at every read, and a   *)
(* chip answers "ready" or not at every status command.                    *)

\* the loops: QSPI_BUSY_WAIT in qspi_reset_fifo, in qspi_tx and in
\* qspi_wait_until_ready, and the push loop of qspi_get_fifo_depth
BusyWaits == {"reset_wait", "tx_wait", "ready_wait"}
PollLoops == BusyWaits \cup {"depth_push"}

\* values the status register may return (the bits the loops look at)
Statuses ==
    SUBSET {QSPI_SR_RX_EMPTY, QSPI_SR_TX_EMPTY, QSPI_SR_TX_FULL, QSPI_SR_CMD_ERR}

\* pushes counted apart: a deeper count is kept as MaxPush
MaxPush == 3

\* the condition each QSPI_BUSY_WAIT waits for
WaitCondition(kind, status, ready) ==
    IF kind = "reset_wait"
    THEN status \cap {QSPI_SR_TX_FULL, QSPI_SR_RX_FULL, QSPI_SR_TX_EMPTY, QSPI_SR_RX_EMPTY}
            = {QSPI_SR_TX_EMPTY, QSPI_SR_RX_EMPTY}
    ELSE IF kind = "tx_wait"
    THEN status \cap ({QSPI_SR_TX_EMPTY} \cup QSPI_SR_ERRS) # {}
    ELSE ready

PollUnchanged ==
    UNCHANGED <<flash, ear, wel, busy, nslaves, flash_size, qspi_fifo_depth,
                vendor, qspi_curr_sector, qspi_curr_slave, call, prev, ncalls,
                io_lock, pc, plan, bus, idcode, qspi_regs>>

\* the code reaches one of the loops
PollEnter(kind) ==
    /\ lowop.pc = "done"
    /\ lowop' = [NoLowOp EXCEPT !.kind = kind, !.pc = "poll",
                                !.retry = IF kind \in BusyWaits THEN BusyRetries ELSE 0]
    /\ PollUnchanged

\* while (retry && !(condition)) { udelay(interval); retry--; } (retry == 0)
BusyWaitPoll(status, ready) ==
    /\ lowop.pc = "poll" /\ lowop.kind \in BusyWaits
    /\ lowop' =
         IF lowop.retry = 0
         THEN [lowop EXCEPT !.pc = "done", !.timedout = TRUE]
         ELSE IF WaitCondition(lowop.kind, status, ready)
         THEN [lowop EXCEPT !.pc = "done", !.timedout = FALSE, !.status = status]
         ELSE [lowop EXCEPT !.retry = @ - 1, !.status = status]
    /\ PollUnchanged

\* while (!(qspi_get_status(flash) & (QSPI_SR_TX_FULL | QSPI_SR_ERRS)))
\*     { qspi_send8(flash, 1); depth++; }
DepthPushPoll(status) ==
    /\ lowop.pc = "poll" /\ lowop.kind = "depth_push"
    /\ lowop' =
         IF status \cap ({QSPI_SR_TX_FULL} \cup QSPI_SR_ERRS) # {}
         THEN [lowop EXCEPT !.pc = "done", !.status = status]
         ELSE [lowop EXCEPT !.depth = Min(@ + 1, MaxPush), !.status = status]
    /\ PollUnchanged

NextPoll ==
    \/ \E kind \in PollLoops : PollEnter(kind)
    \/ \E status \in Statuses, ready \in BOOLEAN : BusyWaitPoll(status, ready)
    \/ \E status \in Statuses : DepthPushPoll(status)

\* the processor goes on running the loop it is in: an iteration has no
\* blocking call in it
SpecPoll == InitTx /\ [][NextPoll]_vars /\ WF_vars(NextPoll)

----------------------------------------------------------------------------
(* qspi_page_erase called on its own, as qspi_page_rmw and qspi_page_wr    *)
(* call it (lock held, slave of the offset selected), with page sizes      *)
(* that have an erase command and page sizes that have none                *)

EraseSizes ==
    {QSPI_PAGE_SIZE, QSPI_LARGE_PAGE_SIZE, QSPI_HUGE_PAGE_SIZE,
     0, QSPI_PAGE_SIZE + KB, 2 * QSPI_PAGE_SIZE}

EraseOffsets ==
    {0, QSPI_PAGE_SIZE, QSPI_PAGE_SIZE + KB, QSPI_LARGE_PAGE_SIZE,
     FlatOff(1, 0, 2 * QSPI_PAGE_SIZE)}

page_erase_return(c, off, pagesz) == Result(c, c.ret, off, pagesz, <<>>)

QspiPageErase(off, pagesz) ==
    /\ Return("erase", off, pagesz, NoFault,
              page_erase_return(
                  qspi_page_erase([Ctx(NoFault) EXCEPT !.slave = qspi_offset2faddr(off).slave],
                                  off, pagesz),
                  off, pagesz))
    /\ UNCHANGED <<io_lock, pc, plan, bus>>

NextErase ==
    \E off \in EraseOffsets, pagesz \in EraseSizes :
        ncalls < MaxCalls /\ QspiPageErase(off, pagesz)

SpecErase == InitTx /\ [][NextErase]_vars

----------------------------------------------------------------------------
(* The address arithmetic on its own: the conversions between flat         *)
(* offsets and flash addresses, and the page round-up                      *)

\* flat offsets with every slave byte, bits 32-55 clear and set, and
\* positions around the page and sector boundaries
AddrOffsets ==
    {FlatOff(s, g, p) : s \in 0..(U8 - 1), g \in {0, 1, SECTOR_BYTES - 1},
                        p \in {0, 1, QSPI_PAGE_SIZE - 1, QSPI_PAGE_SIZE, MaxFront,
                               SECTOR_BYTES - 1, SECTOR_BYTES, SECTOR_BYTES + 1,
                               2 * SECTOR_BYTES - 1, U8 * SECTOR_BYTES - 1}}

\* file offsets (loff_t, not negative): the first pages, the end of a
\* sector, the start of slave 1 and the last pages below the sign bit
RoundupOffsets ==
    (0..(2 * MaxLen)) \cup ((SECTOR_BYTES - MaxFront)..(SECTOR_BYTES + MaxFront))
    \cup (SLAVE_SHIFT..(SLAVE_SHIFT + MaxFront))
    \cup ((WORD \div 2 - 2 * MaxLen)..(WORD \div 2 - 1))

\* call holds the argument and the value of the last evaluation
AddrReturn(op, off, r) ==
    /\ call' = [NoCall EXCEPT !.op = op, !.off = off, !.pos = r]
    /\ UNCHANGED <<flash, ear, wel, busy, nslaves, flash_size, qspi_fifo_depth,
                   vendor, qspi_curr_sector, qspi_curr_slave, prev, ncalls, io_lock,
                   pc, plan, bus, idcode, qspi_regs, lowop>>

\* a flat offset taken apart and put together again
Offset2Faddr2Offset(off) ==
    AddrReturn("faddr", off, qspi_faddr2offset(qspi_offset2faddr(off)))

PageRoundup(off) == AddrReturn("roundup", off, QSPI_PAGE_ROUNDUP(off))

NextAddr ==
    \/ \E off \in AddrOffsets : Offset2Faddr2Offset(off)
    \/ \E off \in RoundupOffsets : PageRoundup(off)

SpecAddr == InitTx /\ [][NextAddr]_vars

----------------------------------------------------------------------------
(* A session: seeks and reads on the position of the open file. call.pos   *)
(* is filp->f_pos after the last call (0 when the file was just opened).   *)

\* a loff_t: 64 bits, signed; arithmetic on it wraps (the kernel is built
\* with -fno-strict-overflow)
LOFF_MAX == WORD \div 2 - 1

S64(x) == ((x + WORD \div 2) % WORD) - WORD \div 2

\* a seek that takes any position
llseek_negative_never(npos) == FALSE

\* if (npos < 0)
llseek_negative(npos) == npos < 0

llseek_npos(f_pos, off, whence) == IF whence = 0 THEN off ELSE S64(f_pos + off)

llseek_set(f_pos, npos) ==
    IF llseek_negative(npos) THEN [rv |-> -EINVAL, pos |-> f_pos]
    ELSE [rv |-> npos, pos |-> npos]

qspi_llseek(f_pos, off, whence) ==
    IF whence \notin {0, 1} THEN [rv |-> -EINVAL, pos |-> f_pos]
    ELSE llseek_set(f_pos, llseek_npos(f_pos, off, whence))

LlseekReturn(off, whence, r) ==
    /\ ~call.locked
    /\ ncalls' = ncalls + 1
    /\ call' = [NoCall EXCEPT !.op = "llseek", !.off = off, !.n = whence,
                              !.rv = r.rv, !.pos = r.pos, !.k = ncalls + 1]
    /\ prev' = call
    /\ UNCHANGED <<flash, ear, wel, busy, nslaves, flash_size, qspi_fifo_depth,
                   vendor, qspi_curr_sector, qspi_curr_slave, io_lock, pc, plan,
                   bus, idcode, qspi_regs, lowop>>

QspiLlseek(off, whence) == LlseekReturn(off, whence, qspi_llseek(call.pos, off, whence))

\* offsets to seek by: both ends of the range of a loff_t, and steps back
\* and forth within the flash
SeekOffsets ==
    {-LOFF_MAX - 1, -SECTOR_BYTES, -1, 0, 1, MaxFront, SECTOR_BYTES, LOFF_MAX}

\* SEEK_SET, SEEK_CUR, SEEK_END and an origin that does not exist
Whences == 0..3

NextSeek ==
    \/ \E off \in SeekOffsets, whence \in Whences :
         ncalls < MaxCalls /\ QspiLlseek(off, whence)
    \/ \E n \in {1, QSPI_PAGE_SIZE} :
         ncalls < MaxCalls /\ QspiRead(call.pos, n, NoFault)

SpecSeek == InitTx /\ [][NextSeek]_vars

----------------------------------------------------------------------------
(* qspi_fifo_rd and qspi_buf_rdwr called on their own, as qspi_do_read,    *)
(* qspi_page_rmw and qspi_page_wr call them (lock held, slave of the       *)
(* offset selected, chip ready), on every FIFO depth attach lets through   *)

\* qspi_fifo_rd(flash, off, buf, &cnt): *cnt afterwards is in len of the call
fifo_rd_return(c, off, cnt) ==
    Result(c, c.ret, off, IF c.ret = 0 THEN c.cnt ELSE cnt, c.data)

QspiFifoRd(off, cnt) ==
    /\ Return("fifo_rd", off, cnt, NoFault,
              fifo_rd_return(
                  qspi_fifo_rd([Ctx(NoFault) EXCEPT !.slave = qspi_offset2faddr(off).slave,
                                                    !.cnt = cnt],
                               off, cnt),
                  off, cnt))
    /\ UNCHANGED <<io_lock, pc, plan, bus>>

\* a qspi_buf_rdwr whose loop never ends does not return to its caller,
\* who holds the lock
buf_rdwr_return(c, off, len) ==
    Result([c EXCEPT !.locked = (c.ret = HUNG)], c.ret, off, len, c.data)

QspiBufRdwr(off, len, write) ==
    /\ Return(IF write THEN "buf_wr" ELSE "buf_rd", off, len, NoFault,
              buf_rdwr_return(
                  qspi_buf_rdwr([Ctx(NoFault) EXCEPT !.slave = qspi_offset2faddr(off).slave],
                                UsrBuf(ncalls + 1, 0, len), off, len, write),
                  off, len))
    /\ UNCHANGED <<io_lock, pc, plan, bus>>

\* offsets at the start, inside and at the end of a 4KB page and of a sector
BufOffsets == {0, 1, QSPI_PAGE_SIZE, SECTOR_BYTES - QSPI_PAGE_SIZE, SECTOR_BYTES - 1}

\* lengths: a byte, less than a page, a page, more than a FIFO holds
BufLens == {1, 2, QSPI_PAGE_SIZE, MaxLen}

InputsBuf ==
    IF ncalls = 0 THEN BufOffsets \X BufLens ELSE {<<call.off, call.n>>}

NextBuf ==
    \/ \E in \in InputsBuf : ncalls < MaxCalls /\ QspiFifoRd(in[1], in[2])
    \/ \E in \in InputsBuf, write \in BOOLEAN :
         ncalls < MaxCalls /\ QspiBufRdwr(in[1], in[2], write)

SpecBuf == InitFifo /\ [][NextBuf]_vars

----------------------------------------------------------------------------
(* The operations under qspi_write called on their own, as qspi_write and  *)
(* the page operations call them (lock held, slave of the offset selected, *)
(* chip found ready), with transactions and user copies that may fail      *)

\* qspi_set_sector(flash, sector): off of the call is the sector asked
\* for, n the sector the cache held
set_sector_return(c, sector) == Result(c, c.ret, sector, qspi_curr_sector, <<>>)

QspiSetSector(sector, fault) ==
    /\ Return("set_sector", sector, qspi_curr_sector, fault,
              set_sector_return(qspi_set_sector(Ctx(fault), sector), sector))
    /\ UNCHANGED <<io_lock, pc, plan, bus>>

\* the context in which a page operation at off runs
PageCtx(fault, off, cnt) ==
    [Ctx(fault) EXCEPT !.slave = qspi_offset2faddr(off).slave, !.cnt = cnt]

\* qspi_page_rmw and qspi_page_wr: *cnt afterwards is in len of the call
page_return(c, off, cnt) == Result(c, c.ret, off, c.cnt, <<>>)

QspiPageRmw(off, cnt, fault) ==
    /\ Return("page_rmw", off, cnt, fault,
              page_return(qspi_page_rmw(PageCtx(fault, off, cnt), ncalls + 1, 0, off, cnt),
                          off, cnt))
    /\ UNCHANGED <<io_lock, pc, plan, bus>>

QspiPageWr(off, cnt, fault) ==
    /\ Return("page_wr", off, cnt, fault,
              page_return(qspi_page_wr(PageCtx(fault, off, cnt), ncalls + 1, 0, off, cnt),
                          off, cnt))
    /\ UNCHANGED <<io_lock, pc, plan, bus>>

QspiPageEraseFault(off, pagesz, fault) ==
    /\ Return("erase", off, pagesz, fault,
              page_erase_return(qspi_page_erase(PageCtx(fault, off, pagesz), off, pagesz),
                                off, pagesz))
    /\ UNCHANGED <<io_lock, pc, plan, bus>>

\* offsets inside and at the start of a 4KB window, at a 32KB and at a
\* 64KB (sector) boundary, and on the second chip
PageOffsets ==
    {0, 1, QSPI_PAGE_SIZE - 1, QSPI_PAGE_SIZE, QSPI_LARGE_PAGE_SIZE, SECTOR_BYTES,
     FlatOff(1, 0, QSPI_PAGE_SIZE + 1), FlatOff(1, 0, SECTOR_BYTES)}

PageCnts ==
    {1, 2, QSPI_PAGE_SIZE, QSPI_PAGE_SIZE + 2, QSPI_LARGE_PAGE_SIZE,
     QSPI_HUGE_PAGE_SIZE, QSPI_HUGE_PAGE_SIZE + 1}

\* the erases the write paths ask for
PageErases ==
    {in \in PageOffsets \X {QSPI_PAGE_SIZE, QSPI_LARGE_PAGE_SIZE, QSPI_HUGE_PAGE_SIZE} :
        IS_ALIGNED(in[1], in[2])}

\* the first call takes any input and may meet a fault; the call after it
\* is the same call again
FirstOrAgain(op, inputs) ==
    IF ncalls = 0 THEN inputs \X Faults
    ELSE IF call.op = op THEN {<<<<call.off, call.n>>, NoFault>>}
    ELSE {}

NextPage ==
    \/ \E sector \in 0..(U8 - 1),
          fault \in (IF ncalls = 0 THEN Faults ELSE {NoFault}) :
         /\ ncalls < MaxCalls /\ (ncalls = 0 \/ call.op = "set_sector")
         /\ QspiSetSector(sector, fault)
    \/ \E in \in FirstOrAgain("page_rmw", PageOffsets \X PageCnts) :
         ncalls < MaxCalls /\ QspiPageRmw(in[1][1], in[1][2], in[2])
    \/ \E in \in FirstOrAgain("page_wr", PageOffsets \X PageCnts) :
         ncalls < MaxCalls /\ QspiPageWr(in[1][1], in[1][2], in[2])
    \/ \E in \in FirstOrAgain("erase", PageErases) :
         ncalls < MaxCalls /\ QspiPageEraseFault(in[1][1], in[1][2], in[2])

SpecPage == InitSeq /\ [][NextPage]_vars

----------------------------------------------------------------------------
(* qspi_fifo_wr called on its own, on chips of both vendors behind FIFOs   *)
(* from the shallowest attach lets through to deeper than the longest      *)
(* program.                                                                *)

\* qspi_fifo_wr(flash, off, buf, &cnt): *cnt afterwards is in len of the call
fifo_wr_return(c, off, cnt) == Result(c, c.ret, off, c.cnt, <<>>)

QspiFifoWr(off, cnt, fault) ==
    /\ Return("fifo_wr", off, cnt, fault,
              fifo_wr_return(
                  qspi_fifo_wr(PageCtx(fault, off, cnt), off,
                               UsrBuf(ncalls + 1, 0, cnt), cnt),
                  off, cnt))
    /\ UNCHANGED <<io_lock, pc, plan, bus>>

\* FIFO depths: one byte of payload, a few, exactly the longest program,
\* and more than that
WrDepths ==
    {ID_READ_LEN, 2 * HEADER_LEN, 3 * HEADER_LEN, WRITE_MAX_LEN + HEADER_LEN,
     WRITE_MAX_LEN + 3 * HEADER_LEN}

\* counts: a byte, what the small FIFOs hold and one more, and around the
\* longest program
WrCounts ==
    {1, HEADER_LEN, HEADER_LEN + 1, 2 * HEADER_LEN, 2 * HEADER_LEN + 1,
     WRITE_MAX_LEN - 1, WRITE_MAX_LEN, WRITE_MAX_LEN + 1, WRITE_MAX_LEN + 3 * HEADER_LEN}

WrOffsets == {0, 1, SECTOR_BYTES}

\* faults on the transactions a single program can be made of
WrFaults == {f \in Faults : f.at <= 2 * HEADER_LEN /\ f.ucopy = 0}

InitWr == InitDevice({<<0, 25, d, 1>> : d \in WrDepths} \cup {<<1, 57, d, 1>> : d \in WrDepths})

NextWr ==
    /\ ncalls < MaxCalls
    /\ \E off \in WrOffsets, cnt \in WrCounts :
       \E fault \in (IF ncalls = 0 THEN WrFaults ELSE {NoFault}) :
          /\ ncalls = 0 \/ (call.off = off /\ call.n = cnt)
          /\ QspiFifoWr(off, cnt, fault)

SpecWr == InitWr /\ [][NextWr]_vars

----------------------------------------------------------------------------
(* Callers that wait for io_lock. Each caller makes one call, which may    *)
(* meet a fault: a chip that does not answer, a transaction that fails, a  *)
(* user copy that fails. The mutex hands the lock to every caller that     *)
(* keeps asking for it, and a caller that holds it goes on with its call.  *)
(* A call whose loop never ends stays where it is, with the lock.          *)

\* the call of caller t, from the state it finds, when it meets fault f
ThreadCallFault(t, off, n, f) ==
    CASE t = "read" -> qspi_read(Ctx(f), n, off)
      [] t = "kread" -> qspi_kernel_read(Ctx(f), n, off)
      [] t = "write" -> qspi_write(Ctx(f), ncalls + 1, n, off)

MutexLockFault(t, f) ==
    /\ pc[t] = "lock"
    /\ mutex_is_free(io_lock)
    /\ io_lock' = t
    /\ pc' = [pc EXCEPT ![t] = "io"]
    /\ plan' = [plan EXCEPT ![t].r = ThreadCallFault(t, plan[t].off, plan[t].n, f)]
    /\ UNCHANGED <<flash, ear, wel, busy, nslaves, flash_size, qspi_fifo_depth,
                   vendor, qspi_curr_sector, qspi_curr_slave, call, prev, ncalls,
                   bus, idcode, qspi_regs, lowop>>

\* mutex_unlock(&flash->io_lock) and the return of the call
MutexUnlockFault(t) ==
    /\ pc[t] = "unlock"
    /\ ~plan[t].r.c.locked
    /\ Return(t, plan[t].off, plan[t].n, plan[t].r.c.fault, plan[t].r)
    /\ io_lock' = "none"
    /\ pc' = [pc EXCEPT ![t] = "done"]
    /\ UNCHANGED <<plan, bus>>

\* no fault; no transaction goes through (the chip is never seen ready); the
\* fourth transaction fails; the first user copy fails
WaitFaults ==
    {NoFault,
     [NoFault EXCEPT !.at = 1, !.dead = TRUE],
     [NoFault EXCEPT !.at = HEADER_LEN],
     [NoFault EXCEPT !.ucopy = 1]}

\* FIFOs of 8 and of 12 bytes
WaitDepths == {2 * HEADER_LEN, 3 * HEADER_LEN}

InputsWait == {<<FlatOff(0, 0, 1), 2>>, <<FlatOff(0, 0, SECTOR_BYTES), 1>>}

InitWait == InitDevice({<<0, 25, d, 1>> : d \in WaitDepths})

NextWait ==
    \E t \in Threads :
        \/ \E in \in InputsWait : Enter(t, in[1], in[2])
        \/ \E f \in WaitFaults : MutexLockFault(t, f)
        \/ Transaction(t)
        \/ MutexUnlockFault(t)

\* caller t gets the lock, whatever its call meets then
GetsLock(t) ==
    /\ pc[t] = "lock"
    /\ mutex_is_free(io_lock)
    /\ io_lock' = t
    /\ pc' = [pc EXCEPT ![t] = "io"]

\* the scheduler: a caller that holds the lock runs on, and a caller that
\* waits for the lock gets it when the lock comes free again and again
FairWait ==
    \A t \in Threads :
        /\ SF_<<io_lock, pc>>(GetsLock(t))
        /\ WF_vars(Transaction(t))
        /\ WF_vars(MutexUnlockFault(t))

SpecWait == InitWait /\ [][NextWait]_vars /\ FairWait

----------------------------------------------------------------------------
(* Reading the state after a call *)

\* slave and in-slave position a flat offset names
SlaveOf(off) == qspi_offset2faddr(off).slave
PosOf(off) == qspi_faddr2offset([qspi_offset2faddr(off) EXCEPT !.slave = 0])

\* the call returned the count it was asked for
Succeeded(cl) == cl.rv = cl.len /\ cl.len > 0 /\ ~cl.locked

\* the offset with its slave byte zeroed, as a number
InSlave(off) == off % SLAVE_SHIFT

\* positions of chip s whose content the last call changed
Changed(s) == {a \in DOMAIN flash[s] : flash[s][a] # call.pre[s][a]}

----------------------------------------------------------------------------
(* C1: on a single-slave device, a successful write of a range lying     *)
(* within capacity followed by a read of the same range returns exactly  *)
(* the bytes written, and every flash byte outside the range keeps the   *)
(* value it had before the write.                                        *)
C1_WriteThenReadBack ==
    ( /\ nslaves = 1
      /\ call.op = "read" /\ prev.op = "write"
      /\ call.off = prev.off /\ call.n = prev.n
      /\ prev.n > 0 /\ prev.off + prev.n <= flash_size
      /\ prev.rv = prev.n )
    => /\ call.rv = prev.n
       /\ call.ubuf = UsrBuf(prev.k, 0, prev.n)
       /\ \A a \in DOMAIN flash[0] :
            (a < prev.off \/ a >= prev.off + prev.n) => flash[0][a] = prev.pre[0][a]

\* the write crosses one page boundary unaligned (6000 bytes at 4000)
C1_Witness ==
    /\ nslaves = 1
    /\ call.op = "read" /\ prev.op = "write"
    /\ prev.off = QSPI_PAGE_SIZE - 1 /\ prev.n = QSPI_PAGE_SIZE + 2
    /\ call.off = prev.off /\ call.n = prev.n
    /\ prev.rv = prev.n
    /\ call.ubuf = UsrBuf(prev.k, 0, prev.n)

----------------------------------------------------------------------------
(* C2: after a successful write of fewer than 4KB at an offset that is   *)
(* not 4KB-aligned, which goes through qspi_page_rmw, every byte of the  *)
(* 4KB window containing the offset that lies outside the written range  *)
(* has the value it had before.                                          *)
C2_RmwPreservesWindow ==
    ( /\ call.op = "write" /\ Succeeded(call)
      /\ call.n < QSPI_PAGE_SIZE /\ QSPI_PAGE_OFFSET(call.off) # 0
      /\ SlaveOf(call.off) < nslaves )
    => /\ \A i \in 1..Len(call.steps) : call.steps[i].path = "rmw"
       /\ \A a \in DOMAIN flash[SlaveOf(call.off)] :
            ( /\ QSPI_PAGE_ALIGN(a) = QSPI_PAGE_ALIGN(PosOf(call.off))
              /\ (a < PosOf(call.off) \/ a >= PosOf(call.off) + call.len) )
            => flash[SlaveOf(call.off)][a] = call.pre[SlaveOf(call.off)][a]

\* two bytes written in the middle of the first window
C2_Witness ==
    /\ call.op = "write" /\ call.off = 1 /\ call.n = 2 /\ call.rv = 2
    /\ Len(call.steps) = 1 /\ call.steps[1].path = "rmw"
    /\ flash[0][1] = Usr(call.k, 0) /\ flash[0][2] = Usr(call.k, 1)
    /\ flash[0][0] = call.pre[0][0] /\ flash[0][3] = call.pre[0][3]

----------------------------------------------------------------------------
(* The transactions of one page operation *)

\* trace indices of the transactions of step i of the last call
Seg(i) ==
    {j \in 1..Len(call.log) :
        /\ j >= call.steps[i].at
        /\ (i < Len(call.steps) => j < call.steps[i + 1].at)}

IsErase(e) == e.sent /\ EraseSize(e.op) # 0
IsProgram(e) == e.sent /\ e.op \in {QSPI_CMD_QUAD_WRITE, QSPI_CMD_PAGE_PROGRAM}

\* in-slave position a logged command reaches in the chip
EntryPos(e) == e.ear * SECTOR_BYTES + e.arg

\* step i erased and programmed exactly the region [off, off + used)
ExactRegion(i) ==
    LET st == call.steps[i]
        s == SlaveOf(st.off)
        p == PosOf(st.off)
        erases == {j \in Seg(i) : IsErase(call.log[j])}
        progs == {j \in Seg(i) : IsProgram(call.log[j])}
    IN /\ Cardinality(erases) = 1
       /\ \A j \in erases :
            /\ call.log[j].op = qspi_erase_cmd(st.used)
            /\ call.log[j].slave = s
            /\ EntryPos(call.log[j]) = p
       /\ \A j \in progs :
            /\ call.log[j].slave = s
            /\ EntryPos(call.log[j]) >= p
            /\ EntryPos(call.log[j]) + call.log[j].n <= p + st.used
       /\ \A a \in 0..(st.used - 1) :
            /\ p + a \in DOMAIN flash[s]
            /\ flash[s][p + a] = Usr(call.k, st.off - call.off + a)

(* C3: a write step whose offset is aligned to 64KB or 32KB and whose    *)
(* remaining length covers that size erases and reprograms exactly that  *)
(* aligned region and touches no byte outside it; a step that qualifies  *)
(* for no full-page size goes through read-modify-write, and a write is  *)
(* never failed for lack of alignment.                                   *)
C3_FullPageExactOrRmw ==
    ( /\ call.op = "write" /\ call.len > 0
      /\ is_valid_offset(call.off) /\ SlaveOf(call.off) < nslaves )
    => /\ call.rv = call.len
       /\ \A i \in 1..Len(call.steps) :
            /\ (call.steps[i].path = "rmw")
                 <=> (qspi_get_page_io_size(call.steps[i].off, call.steps[i].req) = 0)
            /\ call.steps[i].used \in {QSPI_LARGE_PAGE_SIZE, QSPI_HUGE_PAGE_SIZE}
                 => ExactRegion(i)
       /\ ( /\ Len(call.steps) = 1
            /\ call.steps[1].used \in {QSPI_LARGE_PAGE_SIZE, QSPI_HUGE_PAGE_SIZE} )
          => /\ Changed(SlaveOf(call.off)) \subseteq
                    {a \in DOMAIN flash[SlaveOf(call.off)] :
                        a >= PosOf(call.off) /\ a < PosOf(call.off) + call.len}
             /\ \A s \in DOMAIN flash : s # SlaveOf(call.off) => Changed(s) = {}

----------------------------------------------------------------------------
(* C4: whatever FIFO depth attach discovered, no transaction of a call   *)
(* is longer than that depth (so the assertion of qspi_tx holds and the  *)
(* scratch buffer of that size is not overrun).                          *)
C4_FifoDepthBound ==
    \A j \in 1..Len(call.log) : call.log[j].len <= qspi_fifo_depth

----------------------------------------------------------------------------
(* C5: the transactions of concurrent calls do not interleave: between   *)
(* two transactions of one call there is no transaction of another, and  *)
(* while a call is between its first and its last transaction no other   *)
(* call is at the hardware or at the cached fields.                      *)
C5_NoInterleaving ==
    /\ \A i \in 1..Len(bus) : \A k \in i..Len(bus) :
          bus[i].t = bus[k].t => \A j \in i..k : bus[j].t = bus[i].t
    /\ \A t \in Threads : \A u \in Threads \ {t} :
          pc[t] \in {"io", "unlock"} => pc[u] \notin {"io", "unlock"}

\* the write is in the middle of its transactions while both reads wait
\* for the lock, after the kernel read has had its turn
C5_Witness ==
    /\ pc["write"] = "io" /\ Sent("write") >= 2
    /\ pc["read"] = "lock"
    /\ pc["kread"] = "done" /\ Sent("kread") >= 2

----------------------------------------------------------------------------
(* C6: a read of zero length, or at an offset at or beyond capacity,     *)
(* returns 0 with no transaction and the position unmoved; a read that   *)
(* starts below capacity and asks for more than is left returns exactly  *)
(* capacity - offset bytes.                                              *)
C6_ReadBoundary ==
    (call.op = "read" /\ SlaveOf(call.off) < nslaves)
    => /\ (call.n = 0 \/ InSlave(call.off) >= flash_size)
            => (call.rv = 0 /\ call.log = <<>> /\ call.pos = call.off)
       /\ (call.n > flash_size - InSlave(call.off) /\ InSlave(call.off) < flash_size)
            => call.rv = flash_size - InSlave(call.off)

----------------------------------------------------------------------------
(* C7: a write of zero length, or at an offset at or beyond capacity,    *)
(* returns -ENOSPC, issues no transaction, changes no flash byte and     *)
(* leaves the position; a write that starts below capacity is clamped to *)
(* what is left.                                                         *)
C7_WriteBoundary ==
    (call.op = "write" /\ SlaveOf(call.off) < nslaves)
    => /\ (call.n = 0 \/ InSlave(call.off) >= flash_size)
            => /\ call.rv = -ENOSPC
               /\ call.log = <<>>
               /\ flash = call.pre
               /\ call.pos = call.off
       /\ (call.n > 0 /\ InSlave(call.off) < flash_size)
            => call.len = Min(call.n, flash_size - InSlave(call.off))

----------------------------------------------------------------------------
(* C8: is_valid_offset accepts an offset exactly when the offset with    *)
(* its slave byte zeroed is, as a number, below the capacity of a slave; *)
(* an offset at or beyond capacity is answered 0 by read and -ENOSPC by  *)
(* write.                                                                *)
C8_ValidIffBelowCapacity ==
    call.op # "none"
    => /\ is_valid_offset(call.off) <=> (InSlave(call.off) < flash_size)
       /\ InSlave(call.off) >= flash_size
            => /\ call.op = "read" => call.rv = 0
               /\ call.op = "write" => call.rv = -ENOSPC

----------------------------------------------------------------------------
(* C9: an accepted read or write, on slave 0 or slave 1, has its length  *)
(* clamped to capacity minus the in-slave position, and none of its      *)
(* read, program or erase commands reaches a position at or beyond the   *)
(* capacity of the slave.                                                *)
C9_ClampPerSlave ==
    ( /\ call.op \in {"read", "write"}
      /\ call.n > 0 /\ is_valid_offset(call.off)
      /\ SlaveOf(call.off) < nslaves )
    => /\ call.len = Min(call.n, flash_size - PosOf(call.off))
       /\ \A j \in 1..Len(call.log) :
            ( /\ call.log[j].sent
              /\ \/ call.log[j].op = QSPI_CMD_QUAD_READ
                 \/ IsProgram(call.log[j])
                 \/ IsErase(call.log[j]) )
            => EntryPos(call.log[j]) + call.log[j].n <= flash_size

----------------------------------------------------------------------------
(* C10: a write that fails after earlier page operations went through    *)
(* reports to its caller, with the failure, the count of bytes those     *)
(* operations committed.                                                 *)
C10_PartialWriteCount ==
    (call.op = "write" /\ call.rv # call.len /\ call.total > 0 /\ ~call.locked)
    => \/ call.rv = call.total
       \/ call.pos = call.off + call.total

----------------------------------------------------------------------------
(* C11: after every transaction that has activated a slave, whether it   *)
(* ended in success, transmit timeout, transmit error or receive         *)
(* failure, the slave-select register holds the none-selected value      *)
(* again and no slave line is driven.                                    *)
C11_SlaveDeselected ==
    (lowop.kind = "transaction" /\ lowop.activated)
    => /\ qspi_regs.slave = SLAVE_SELECT_NONE
       /\ Selected(qspi_regs) = {}

----------------------------------------------------------------------------
(* C12: every loop that polls the hardware (the FIFO-reset wait, the     *)
(* transmit-drain wait, the device-ready wait and the push loop of the   *)
(* FIFO-depth discovery) is left after a bounded number of polls,        *)
(* whatever the status register keeps returning.                         *)
C12_PollLoopsTerminate == (lowop.pc = "poll") ~> (lowop.pc = "done")

----------------------------------------------------------------------------
(* C13: a transaction whose RX FIFO held fewer or more bytes than were   *)
(* transmitted when it was pulled, or whose status showed error bits     *)
(* after the pull, returns a failure, whether its output is captured or  *)
(* the RX FIFO is only drained.                                          *)
C13_RxMismatchFails ==
    ( /\ lowop.kind = "transaction" /\ lowop.pulled
      /\ (lowop.rxn # lowop.len \/ lowop.rxerr) )
    => lowop.ret # 0

----------------------------------------------------------------------------
(* C14: when byte 1 of the ID-read response is neither 0x20 nor 0xC2,    *)
(* attach fails, and the controller is unusable afterwards: no vendor    *)
(* is resolved, no capacity is set and no client call is ever served     *)
(* (the failed attach stays the only call made).                         *)
C14_UnknownVendorFailsAttach ==
    (ncalls > 0 /\ idcode.vid \notin {32, 194})
    => /\ call.op = "probe" /\ call.rv # 0
       /\ vendor = NoVendor
       /\ flash_size = 0
       /\ ~Attached

\* an attach whose ID read went through and brought back an unknown vendor
C14_Witness ==
    /\ call.op = "probe" /\ call.fault = NoFault
    /\ idcode.vid = 1 /\ idcode.code = 24
    /\ \E j \in 1..Len(call.log) :
         call.log[j].op = QSPI_CMD_IDCODE_READ /\ call.log[j].sent
    /\ qspi_regs.cap >= ID_READ_LEN

----------------------------------------------------------------------------
(* C15: after a successful attach the capacity is the sector count of    *)
(* the vendor's table for byte 3 of the ID response, times 16MB: Micron  *)
(* 0x17, 0x18 -> 1, 0x19 -> 2, 0x20 -> 4, 0x21 -> 8, 0x22 -> 16,         *)
(* Macronix 0x38..0x3c -> 1, 2, 4, 8, 16. Any other code gives no        *)
(* sectors and attach fails, so an attached controller has a non-zero    *)
(* capacity that is a multiple of 16MB.                                  *)
SectorCount(id) ==
    IF id.vid = 32
    THEN CASE id.code \in {23, 24} -> 1
           [] id.code = 25 -> 2
           [] id.code = 32 -> 4
           [] id.code = 33 -> 8
           [] id.code = 34 -> 16
           [] OTHER -> 0
    ELSE IF id.vid = 194 /\ id.code \in 56..60
    THEN 2 ^ (id.code - 56)
    ELSE 0

C15_CapacityFromIdCode ==
    /\ (call.op = "probe" /\ call.rv = 0)
          => flash_size = SectorCount(idcode) * SECTOR_BYTES
    /\ (call.op = "probe" /\ SectorCount(idcode) = 0) => call.rv # 0
    /\ Attached => flash_size > 0 /\ flash_size % SECTOR_BYTES = 0

\* a Micron chip of code 0x18 attached: one sector
C15_Witness ==
    /\ call.op = "probe" /\ call.rv = 0
    /\ idcode = [vid |-> 32, code |-> 24]
    /\ flash_size = SECTOR_BYTES

----------------------------------------------------------------------------
(* C16: an erase whose page size is not exactly 4KB, 32KB or 64KB        *)
(* returns an error, issues no transaction and leaves the flash and the  *)
(* state of the chips as they were.                                      *)
C16_InvalidEraseSizeRejected ==
    ( /\ call.op = "erase"
      /\ call.n \notin {QSPI_PAGE_SIZE, QSPI_LARGE_PAGE_SIZE, QSPI_HUGE_PAGE_SIZE} )
    => /\ call.rv # 0
       /\ call.log = <<>>
       /\ flash = call.pre

----------------------------------------------------------------------------
(* C17: a flat offset taken apart by qspi_offset2faddr and put together  *)
(* again by qspi_faddr2offset is the offset it was, and its top byte is  *)
(* the slave of the address.                                             *)
C17_AddrRoundTrip ==
    (call.op = "faddr")
    => /\ call.pos = call.off
       /\ qspi_offset2faddr(call.off).slave = call.off \div SLAVE_SHIFT

----------------------------------------------------------------------------
(* C18: QSPI_PAGE_ROUNDUP of an offset is a multiple of 4KB, lies above  *)
(* the offset and at most 4KB above it: offset + 4KB when the offset is  *)
(* a multiple of 4KB, the smallest multiple of 4KB above it otherwise.   *)
C18_PageRoundup ==
    (call.op = "roundup")
    => /\ call.pos % QSPI_PAGE_SIZE = 0
       /\ call.pos > call.off
       /\ call.pos <= call.off + QSPI_PAGE_SIZE
       /\ call.off % QSPI_PAGE_SIZE = 0 => call.pos = call.off + QSPI_PAGE_SIZE
       /\ \A m \in (call.off + 1)..(call.pos - 1) : m % QSPI_PAGE_SIZE # 0

\* the round-up of an offset that is a multiple of 4KB
C18_Witness ==
    /\ call.op = "roundup" /\ call.off = 2 * QSPI_PAGE_SIZE
    /\ call.pos = 3 * QSPI_PAGE_SIZE

----------------------------------------------------------------------------
(* C19: a kernel read does what the stream read does for the same offset *)
(* and length: the same rejection of an empty or out-of-range request,   *)
(* the same clamp, the same transactions and the same bytes; so none of  *)
(* its read commands reaches a position at or beyond capacity.           *)
\* the context of the first call on an attached controller
FirstCtx ==
    [Ctx(NoFault) EXCEPT !.flash = call.pre,
                         !.ear = [s \in DOMAIN ear |-> 0],
                         !.wel = [s \in DOMAIN wel |-> FALSE],
                         !.busy = [s \in DOMAIN busy |-> 0],
                         !.sector = SECTOR_NONE, !.slave = 0]

C19_KernelReadAsRead ==
    (call.op = "kread" /\ call.k = 1)
    => /\ call.log = qspi_read(FirstCtx, call.n, call.off).c.log
       /\ call.ubuf = qspi_read(FirstCtx, call.n, call.off).ubuf
       /\ \A j \in 1..Len(call.log) :
            (call.log[j].sent /\ call.log[j].op = QSPI_CMD_QUAD_READ)
            => EntryPos(call.log[j]) + call.log[j].n <= flash_size

----------------------------------------------------------------------------
(* C20: a seek with the absolute origin sets the position to the offset, *)
(* one with the relative origin to the current position plus the offset; *)
(* a seek with the end-relative or an unknown origin, or to a negative   *)
(* position, is rejected, and a rejected seek leaves the position where  *)
(* it was. prev.pos is the position the seek found.                      *)
SeekTarget == IF call.n = 0 THEN call.off ELSE prev.pos + call.off

C20_Seek ==
    (call.op = "llseek")
    => /\ (call.n \in {0, 1} /\ SeekTarget \in 0..LOFF_MAX)
            => call.pos = SeekTarget /\ call.rv = SeekTarget
       /\ (call.n \notin {0, 1} \/ SeekTarget < 0)
            => call.pos = prev.pos /\ call.rv = -EINVAL
       /\ call.rv < 0 => call.pos = prev.pos
       /\ call.pos >= 0

\* a relative seek backwards from where an absolute seek or a read left
\* the position
C20_Witness ==
    /\ call.op = "llseek" /\ call.n = 1 /\ call.off < 0
    /\ prev.pos > 0
    /\ call.pos = prev.pos + call.off
    /\ call.rv = call.pos

----------------------------------------------------------------------------
(* The register accesses of one transaction, by the step they belong to *)

IsFifoReset(e) ==
    e.reg = "cr" /\ e.ctrl \cap {QSPI_CR_TXFIFO_RESET, QSPI_CR_RXFIFO_RESET} # {}
IsSelect(e) == e.reg = "ssr" /\ e.val # SLAVE_SELECT_NONE
IsDeselect(e) == e.reg = "ssr" /\ e.val = SLAVE_SELECT_NONE
IsTxPush(e) == e.reg = "dtr"
IsRxPull(e) == e.reg = "drr"

\* reset FIFOs, activate, transmit, receive, deactivate
StepOf(e) ==
    CASE IsFifoReset(e) -> 1
      [] IsSelect(e) -> 2
      [] e.reg = "cr" /\ ~IsFifoReset(e) -> 3
      [] IsTxPush(e) -> 3
      [] IsRxPull(e) -> 4
      [] IsDeselect(e) -> 5

\* the accesses of the last transaction that satisfy P
Accesses(P(_)) == {i \in 1..Len(lowop.trace) : P(lowop.trace[i])}

(* C21: the register accesses of every transaction come in the order     *)
(* FIFO reset, slave select, transmit, receive (or drain), deselect. A   *)
(* transaction that fails in the FIFO reset or on the slave-range check  *)
(* (index 2 or more) writes neither the slave-select register nor the TX *)
(* FIFO; one that fails in the transmit pulls no byte from the RX FIFO;  *)
(* one that gets through the transmit has selected its slave once,       *)
(* pushed its len bytes and ends by deselecting.                         *)
C21_TransactionStepOrder ==
    (lowop.kind = "transaction")
    => /\ \A i \in 1..Len(lowop.trace) : \A j \in i..Len(lowop.trace) :
            StepOf(lowop.trace[i]) <= StepOf(lowop.trace[j])
       /\ (lowop.ret # 0 /\ ~lowop.activated)
            => Accesses(IsSelect) \cup Accesses(IsDeselect) \cup Accesses(IsTxPush) = {}
       /\ (lowop.slave >= MAX_NUM_OF_SLAVES)
            => /\ lowop.ret # 0
               /\ Accesses(IsSelect) \cup Accesses(IsTxPush) = {}
       /\ (lowop.ret = -ETIMEDOUT /\ ~lowop.activated)
            => Len(lowop.trace) = 1 /\ IsFifoReset(lowop.trace[1])
       /\ (lowop.activated /\ ~lowop.pulled)
            => lowop.ret # 0 /\ Accesses(IsRxPull) = {}
       /\ lowop.activated
            => /\ Cardinality(Accesses(IsSelect)) = 1
               /\ \A i \in Accesses(IsSelect) :
                    lowop.trace[i].val = REG_ONES - BIT(lowop.slave)
               /\ Cardinality(Accesses(IsTxPush)) = lowop.len
       /\ lowop.pulled
            => /\ lowop.activated
               /\ IsDeselect(lowop.trace[Len(lowop.trace)])
               /\ Cardinality(Accesses(IsDeselect)) = 1

\* the ID read on slave 1 after a transaction that left a byte in the RX
\* FIFO: every step is there
C21_Witness ==
    /\ lowop.kind = "transaction" /\ lowop.ret = 0 /\ lowop.need_output
    /\ lowop.slave = 1 /\ lowop.len = ID_READ_LEN
    /\ IsFifoReset(lowop.trace[1])
    /\ IsSelect(lowop.trace[2])
    /\ Cardinality(Accesses(IsTxPush)) = ID_READ_LEN
    /\ Cardinality(Accesses(IsRxPull)) = ID_READ_LEN
    /\ IsDeselect(lowop.trace[Len(lowop.trace)])

----------------------------------------------------------------------------
(* The data transactions of the last call: quad reads and programs *)

IsData(e) == e.op = QSPI_CMD_QUAD_READ \/ IsProgram(e)
DataLog == SelectSeq(call.log, IsData)

\* payload bytes of a data transaction
DataLen(e) ==
    IF e.op = QSPI_CMD_QUAD_READ THEN e.len - HEADER_LEN - READ_DUMMY_LEN
    ELSE e.len - HEADER_LEN

\* in-slave position its header names (the sector the driver selected for
\* it and its 24 address bits)
DataPos(e) == e.sec * SECTOR_BYTES + e.arg

(* C22: for every length and every FIFO depth attach lets through,       *)
(* qspi_buf_rdwr returns: each of its transactions moves at least one    *)
(* byte, and when it returns 0 its transactions moved exactly len bytes  *)
(* in contiguous ascending chunks from the offset on.                    *)
C22_BufRdwrTerminates ==
    (call.op \in {"buf_rd", "buf_wr"})
    => /\ call.rv # HUNG /\ ~call.locked
       /\ \A i \in 1..Len(DataLog) : DataLog[i].sent => DataLen(DataLog[i]) >= 1
       /\ call.rv = 0
            => /\ Len(DataLog) >= 1
               /\ DataPos(DataLog[1]) = PosOf(call.off)
               /\ \A i \in 1..(Len(DataLog) - 1) :
                    DataPos(DataLog[i + 1]) = DataPos(DataLog[i]) + DataLen(DataLog[i])
               /\ DataPos(DataLog[Len(DataLog)]) + DataLen(DataLog[Len(DataLog)])
                    = PosOf(call.off) + call.n

----------------------------------------------------------------------------
(* C23: whenever a quad read, a program or an erase goes out to a slave, *)
(* the extended-address register of that slave holds the sector of the   *)
(* command's flat address (the sector the driver had selected for the    *)
(* command): the one cached sector never makes the driver skip the       *)
(* sector select for a slave whose own register holds another sector.    *)
IsAddressed(e) == e.sent /\ (IsData(e) \/ IsErase(e))

C23_SectorPerSlave ==
    \A j \in 1..Len(call.log) :
        (IsAddressed(call.log[j]) /\ call.log[j].slave < nslaves)
        => call.log[j].ear = call.log[j].sec

----------------------------------------------------------------------------
(* C24: qspi_set_sector(n) issues no transaction when n is the cached    *)
(* sector. Otherwise it issues the write enable and, when that was       *)
(* accepted, the 2-byte extended-address write of n; the cached sector   *)
(* becomes n when both transactions returned success and stays what it   *)
(* was when either returned an error. (In the call record off is n and   *)
(* n the sector the cache held.)                                         *)
C24_SetSector ==
    (call.op = "set_sector")
    => /\ (call.off = call.n)
            => call.log = <<>> /\ call.rv = 0 /\ qspi_curr_sector = call.n
       /\ (call.off # call.n)
            => /\ Len(call.log) \in {1, 2}
               /\ call.log[1].op = QSPI_CMD_WRITE_ENABLE /\ call.log[1].len = 1
               /\ (Len(call.log) = 2) <=> call.log[1].sent
               /\ (Len(call.log) = 2)
                    => /\ call.log[2].op = QSPI_CMD_EXTENDED_ADDRESS_REG_WRITE
                       /\ call.log[2].len = 2
                       /\ call.log[2].arg = call.off
               /\ (call.rv = 0) <=> (Len(call.log) = 2 /\ call.log[2].sent)
               /\ qspi_curr_sector = IF call.rv = 0 THEN call.off ELSE call.n

\* a sector select whose extended-address write failed and left the cache,
\* and the same select again, which goes through
C24_Witness ==
    /\ call.op = "set_sector" /\ prev.op = "set_sector"
    /\ prev.off = 1 /\ Len(prev.log) = 2 /\ prev.rv # 0
    /\ call.off = 1 /\ call.n = prev.n /\ call.n # 1
    /\ call.rv = 0 /\ Len(call.log) = 2
    /\ qspi_curr_sector = 1

----------------------------------------------------------------------------
(* The bytes a page operation has erased and not programmed yet *)

\* chip bytes, as <<slave, position>>, an erase command clears
EraseRange(e) ==
    {<<e.slave, a>> : a \in
        {p \in 0..(flash_size - 1) :
            /\ p >= (EntryPos(e) % flash_size) - ((EntryPos(e) % flash_size) % EraseSize(e.op))
            /\ p < (EntryPos(e) % flash_size) - ((EntryPos(e) % flash_size) % EraseSize(e.op))
                     + EraseSize(e.op)}}

\* chip bytes a program command writes
ProgramRange(e) == {<<e.slave, (EntryPos(e) + i) % flash_size>> : i \in 0..(e.n - 1)}

\* trace indices at which a page operation of the last call starts
StepStarts == {call.steps[i].at : i \in 1..Len(call.steps)}

\* trace indices of the erases and of the page operation starts before
\* transaction j, and of the programs between transactions k and j
ErasesBefore(j) == {k \in 1..(j - 1) : IsErase(call.log[k])}
StartsUpTo(j) == {s \in StepStarts : s <= j}
ProgramsBetween(k, j) == {l \in (k + 1)..(j - 1) : IsProgram(call.log[l])}

Last(S) == CHOOSE x \in S : \A y \in S : y <= x

\* program j falls into bytes that are fresh: erased by the last erase,
\* which belongs to the page operation under way, and not programmed since
ProgramFresh(j) ==
    /\ ErasesBefore(j) # {} /\ StartsUpTo(j) # {}
    /\ Last(ErasesBefore(j)) >= Last(StartsUpTo(j))
    /\ ProgramRange(call.log[j]) \subseteq EraseRange(call.log[Last(ErasesBefore(j))])
    /\ \A l \in ProgramsBetween(Last(ErasesBefore(j)), j) :
            ProgramRange(call.log[l]) \cap ProgramRange(call.log[j]) = {}

ProgramsFresh == \A j \in 1..Len(call.log) : IsProgram(call.log[j]) => ProgramFresh(j)

(* C25: in every write call each program transaction falls into bytes    *)
(* that the same page operation (full-page or read-modify-write) erased  *)
(* earlier and has not programmed since: nothing is programmed twice     *)
(* after one erase, nothing is programmed into a region that was not     *)
(* erased, and no byte of the chips comes out of the call corrupted by   *)
(* a program over unerased content.                                      *)
C25_ProgramOnlyErased ==
    (call.op = "write")
    => /\ ProgramsFresh
       /\ \A s \in DOMAIN flash : \A a \in DOMAIN flash[s] :
            flash[s][a] = BAD => call.pre[s][a] = BAD

\* a write of a full window and a part of the next: two erases, and the
\* programs of each window after its erase
C25_Witness ==
    /\ call.op = "write" /\ Succeeded(call)
    /\ Len(call.steps) = 2
    /\ call.steps[1].path = "full" /\ call.steps[2].path = "rmw"
    /\ Cardinality({j \in 1..Len(call.log) : IsErase(call.log[j])}) = 2
    /\ \E j \in Seg(1) : IsProgram(call.log[j])
    /\ \E j \in Seg(2) : IsProgram(call.log[j])
    /\ ProgramsFresh

----------------------------------------------------------------------------
(* Transactions of the last call that returned an error *)

\* the fault of the call hits transaction j
TxHit(j) ==
    /\ call.fault.at # 0
    /\ \/ j = call.fault.at
       \/ call.fault.dead /\ j >= call.fault.at

\* qspi_transaction returned an error for transaction j: the FIFO reset
\* timed out, or the bytes asked for did not come back
TxFailed(j) ==
    /\ TxHit(j)
    /\ \/ call.fault.kind = "reset"
       \/ call.log[j].op \in {QSPI_CMD_QUAD_READ, QSPI_CMD_STATUSREG_READ,
                              QSPI_CMD_IDCODE_READ}

\* trace indices of the erase commands, quad reads and programs
EraseTxs == {j \in 1..Len(call.log) : EraseSize(call.log[j].op) # 0}
ReadTxs == {j \in 1..Len(call.log) : call.log[j].op = QSPI_CMD_QUAD_READ}
ProgramTxs ==
    {j \in 1..Len(call.log) :
        call.log[j].op \in {QSPI_CMD_QUAD_WRITE, QSPI_CMD_PAGE_PROGRAM}}

\* in-slave positions the reads of the call brought back
ReadBytes ==
    UNION {{DataPos(call.log[j]) + i : i \in 0..(DataLen(call.log[j]) - 1)} :
              j \in {r \in ReadTxs : call.log[r].sent /\ ~TxFailed(r)}}

\* the 4KB window of an offset, and the part of it a request of n bytes
\* at that offset covers
WindowOf(off) == {QSPI_PAGE_ALIGN(PosOf(off)) + i : i \in 0..(QSPI_PAGE_SIZE - 1)}
CoveredOf(off, n) == {a \in WindowOf(off) : a >= PosOf(off) /\ a < PosOf(off) + n}

(* C26: in qspi_page_rmw every read of the window's front and back bytes *)
(* is made before the 4KB erase, and the erase before every program of   *)
(* the window; when the erase is issued the reads have brought back      *)
(* exactly the bytes of the window outside the written range; a read     *)
(* that fails is the last transaction of the call, which returns the     *)
(* error without an erase; and the count reported with a return of 0, or *)
(* once the erase is issued, is min(requested, 4KB - offset mod 4KB).    *)
C26_RmwReadEraseProgram ==
    (call.op = "page_rmw")
    => /\ Cardinality(EraseTxs) <= 1
       /\ \A e \in EraseTxs :
            /\ call.log[e].op = QSPI_CMD_4KB_SUBSECTOR_ERASE
            /\ DataPos(call.log[e]) = QSPI_PAGE_ALIGN(PosOf(call.off))
            /\ \A j \in ReadTxs : j < e
            /\ \A j \in ReadTxs : call.log[j].sent /\ ~TxFailed(j)
            /\ ReadBytes = WindowOf(call.off) \ CoveredOf(call.off, call.n)
            /\ call.len = Min(call.n, QSPI_PAGE_SIZE - QSPI_PAGE_OFFSET(call.off))
       /\ \A j \in ProgramTxs : \E e \in EraseTxs : e < j /\ call.log[e].sent
       /\ \A j \in ReadTxs :
            TxFailed(j) => j = Len(call.log) /\ call.rv # 0 /\ EraseTxs = {}
       /\ (call.rv = 0)
            => /\ EraseTxs # {} /\ ProgramTxs # {}
               /\ call.len = Min(call.n, QSPI_PAGE_SIZE - QSPI_PAGE_OFFSET(call.off))

\* two bytes in the middle of a window. At first the read of the back
\* bytes fails after the front was read, and nothing is erased; asked
\* again, front and back are read, the window is erased and programmed,
\* and 2 of the 2 bytes asked are taken
C26_Witness ==
    /\ prev.op = "page_rmw" /\ prev.rv # 0 /\ prev.fault.at # 0
    /\ Len(SelectSeq(prev.log, LAMBDA e : e.op = QSPI_CMD_QUAD_READ)) = 2
    /\ prev.log[Len(prev.log)].op = QSPI_CMD_QUAD_READ
    /\ Len(SelectSeq(prev.log, LAMBDA e : EraseSize(e.op) # 0)) = 0
    /\ call.op = "page_rmw" /\ call.off = 1 /\ call.n = 2 /\ call.rv = 0
    /\ call.len = 2
    /\ ReadBytes = {0, 3}
    /\ Cardinality(EraseTxs) = 1 /\ ProgramTxs # {}

----------------------------------------------------------------------------
(* C27: qspi_page_wr takes the largest of 64KB, 32KB and 4KB to which    *)
(* the offset is aligned and which the count covers, reports exactly     *)
(* that size as the count consumed, and erases and programs exactly that *)
(* region; when no size qualifies (the offset is not 4KB-aligned or      *)
(* fewer than 4KB remain) it returns -EOPNOTSUPP with no transaction     *)
(* issued and the count left as it was.                                  *)
PageSizesFor(off, n) ==
    {s \in {QSPI_HUGE_PAGE_SIZE, QSPI_LARGE_PAGE_SIZE, QSPI_PAGE_SIZE} :
        off % s = 0 /\ n >= s}

C27_PageWrLargestSize ==
    (call.op = "page_wr")
    => /\ (PageSizesFor(call.off, call.n) = {})
            <=> (QSPI_PAGE_OFFSET(call.off) # 0 \/ call.n < QSPI_PAGE_SIZE)
       /\ (PageSizesFor(call.off, call.n) = {})
            => /\ call.rv = -EOPNOTSUPP
               /\ call.log = <<>>
               /\ call.len = call.n
               /\ flash = call.pre
       /\ (PageSizesFor(call.off, call.n) # {})
            => /\ call.rv # -EOPNOTSUPP
               /\ call.len = Last(PageSizesFor(call.off, call.n))
               /\ \A e \in EraseTxs :
                    /\ call.log[e].op = qspi_erase_cmd(call.len)
                    /\ DataPos(call.log[e]) = PosOf(call.off)
               /\ \A j \in ProgramTxs :
                    /\ DataPos(call.log[j]) >= PosOf(call.off)
                    /\ DataPos(call.log[j]) + DataLen(call.log[j])
                         <= PosOf(call.off) + call.len
               /\ (call.rv = 0)
                    => /\ Cardinality(EraseTxs) = 1
                       /\ \A a \in 0..(call.len - 1) :
                            flash[SlaveOf(call.off)][PosOf(call.off) + a]
                                = Usr(call.k, a)

\* 64KB and one byte more at the start of the second sector of the second
\* chip: the 64KB size is taken, erased with a sector erase and programmed
C27_Witness ==
    /\ call.op = "page_wr" /\ call.rv = 0
    /\ call.off = FlatOff(1, 0, SECTOR_BYTES) /\ call.n = QSPI_HUGE_PAGE_SIZE + 1
    /\ call.len = QSPI_HUGE_PAGE_SIZE
    /\ \E e \in EraseTxs : call.log[e].op = QSPI_CMD_SECTOR_ERASE
    /\ flash[1][SECTOR_BYTES] = Usr(call.k, 0)

----------------------------------------------------------------------------
(* The page operations of a write against the range it was asked for *)

\* the 4KB window at w is only partly inside the range [off, off + len)
PartlyCovered(w, off, len) == w < off \/ off + len < w + QSPI_PAGE_SIZE

\* step i takes up where the step before it left off
FollowsOn(i) ==
    call.steps[i].off =
        IF i = 1 THEN call.off ELSE call.steps[i - 1].off + call.steps[i - 1].used

\* the addressed commands of step i stay inside the region of the step:
\* its 4KB window for RMW, the page it erases for the full-page path
InsideStep(i) ==
    \A j \in Seg(i) :
        (IsData(call.log[j]) \/ EraseSize(call.log[j].op) # 0)
        => /\ DataPos(call.log[j]) >= QSPI_PAGE_ALIGN(PosOf(call.steps[i].off))
           /\ DataPos(call.log[j]) <
                IF call.steps[i].path = "rmw"
                THEN QSPI_PAGE_ALIGN(PosOf(call.steps[i].off)) + QSPI_PAGE_SIZE
                ELSE PosOf(call.steps[i].off) + call.steps[i].used

(* C28: in the loop of qspi_write every 4KB window that the range asked  *)
(* for covers only in part is written by qspi_page_rmw, and every window *)
(* it covers whole by qspi_page_wr, one page operation following on the  *)
(* other; the count consumed never exceeds the clamped length and equals *)
(* it when the write succeeds; and when a page operation returns an      *)
(* error the loop ends there: the failing operation is the last one, the *)
(* failed transaction is the last of the call, and no transaction goes   *)
(* out for an offset beyond the operation that failed.                   *)
C28_WriteLoopPaths ==
    (call.op = "write" /\ call.n > 0 /\ is_valid_offset(call.off))
    => /\ \A i \in 1..Len(call.steps) :
            /\ FollowsOn(i)
            /\ (call.steps[i].path = "rmw")
                 <=> PartlyCovered(QSPI_PAGE_ALIGN(call.steps[i].off), call.off, call.len)
            /\ (call.steps[i].path = "rmw")
                 => /\ call.steps[i].used >= 1
                    /\ QSPI_PAGE_ALIGN(call.steps[i].off + call.steps[i].used - 1)
                         = QSPI_PAGE_ALIGN(call.steps[i].off)
            /\ (call.steps[i].path = "full")
                 => /\ QSPI_PAGE_OFFSET(call.steps[i].off) = 0
                    /\ QSPI_PAGE_OFFSET(call.steps[i].used) = 0
                    /\ call.steps[i].used >= QSPI_PAGE_SIZE
                    /\ call.steps[i].off + call.steps[i].used <= call.off + call.len
            /\ InsideStep(i)
       /\ call.total <= call.len
       /\ (call.rv >= 0 /\ ~call.locked)
            => /\ call.rv = call.len /\ call.total = call.len
               /\ Len(call.steps) >= 1
               /\ call.steps[Len(call.steps)].off + call.steps[Len(call.steps)].used
                    = call.off + call.len
       /\ (call.rv < 0 /\ Len(call.steps) >= 1)
            => call.total = call.steps[Len(call.steps)].off - call.off
       /\ (call.rv < 0 /\ Len(call.steps) = 0) => call.total = 0
       /\ \A j \in 1..Len(call.log) :
            (TxFailed(j) /\ call.log[j].op # QSPI_CMD_STATUSREG_READ)
            => j = Len(call.log) /\ call.rv < 0

\* a write over the last byte of one window, the whole of the next and
\* the first byte of a third, whose erase of the first window fails: the
\* front of the window was read, the loop ends in its first page
\* operation with nothing consumed, and nothing goes out for the windows
\* that follow
C28_Witness ==
    /\ call.op = "write" /\ call.rv < 0
    /\ call.off = QSPI_PAGE_SIZE - 1 /\ call.n = QSPI_PAGE_SIZE + 2
    /\ call.len = call.n
    /\ Len(call.steps) = 1 /\ call.steps[1].path = "rmw"
    /\ call.total = 0
    /\ ReadTxs # {}
    /\ TxFailed(Len(call.log))
    /\ call.log[Len(call.log)].op = QSPI_CMD_4KB_SUBSECTOR_ERASE
    /\ flash = call.pre

----------------------------------------------------------------------------
(* The steps of qspi_page_erase in the trace of the call *)

IsStatusRead(e) == e.op = QSPI_CMD_STATUSREG_READ

\* the transactions of the call other than status polls, as <<opcode,
\* argument>> in the order issued
Commands(log) ==
    [i \in 1..Len(SelectSeq(log, LAMBDA e : ~IsStatusRead(e))) |->
        <<SelectSeq(log, LAMBDA e : ~IsStatusRead(e))[i].op,
          SelectSeq(log, LAMBDA e : ~IsStatusRead(e))[i].arg>>]

\* what qspi_page_erase issues between its two waits when the cached
\* sector is the given one: the sector select if the sector differs, the
\* write enable, the erase command
EraseCommands(off, pagesz, cached) ==
    (IF cached # qspi_offset2faddr(off).sector
     THEN << <<QSPI_CMD_WRITE_ENABLE, 0>>,
             <<QSPI_CMD_EXTENDED_ADDRESS_REG_WRITE, qspi_offset2faddr(off).sector>> >>
     ELSE << >>)
    \o << <<QSPI_CMD_WRITE_ENABLE, 0>>,
          <<qspi_erase_cmd(pagesz), Addr24(qspi_offset2faddr(off))>> >>

IsPrefix(s, t) == Len(s) <= Len(t) /\ \A i \in 1..Len(s) : s[i] = t[i]

\* status polls stand only before the first command (the first wait) and
\* after an erase command that went through (the second wait)
PollsOnlyAround ==
    \A j \in 1..Len(call.log) :
        IsStatusRead(call.log[j])
        => \/ \A i \in 1..j : IsStatusRead(call.log[i])
           \/ \E e \in EraseTxs : e < j /\ ~TxFailed(e)

(* C29: qspi_page_erase waits until the chip is ready, sets up the       *)
(* header (selecting the sector when it is not the cached one), enables  *)
(* writing, issues the erase transaction and waits until ready again, in *)
(* this order; a step that fails makes the call return an error with     *)
(* none of the later steps executed; and every erase that qspi_page_wr   *)
(* and qspi_page_rmw issue is at an offset aligned to its page size.     *)
C29_EraseStepsInOrder ==
    /\ (call.op = "erase")
         => /\ Len(call.log) >= 1 /\ IsStatusRead(call.log[1])
            /\ IsPrefix(Commands(call.log),
                        EraseCommands(call.off, call.n, call.log[1].sec))
            /\ PollsOnlyAround
            /\ (Commands(call.log) # << >>)
                 => \E j \in 1..Len(call.log) :
                        /\ IsStatusRead(call.log[j]) /\ ~TxFailed(j)
                        /\ ~IsStatusRead(call.log[j + 1])
                        /\ \A i \in 1..j : IsStatusRead(call.log[i])
            /\ \A j \in 1..Len(call.log) :
                 (TxFailed(j) /\ ~IsStatusRead(call.log[j]))
                 => j = Len(call.log) /\ call.rv # 0
            /\ TxFailed(Len(call.log)) => call.rv # 0
            /\ (call.rv = 0)
                 => /\ Commands(call.log)
                         = EraseCommands(call.off, call.n, call.log[1].sec)
                    /\ IsStatusRead(call.log[Len(call.log)])
                    /\ ~TxFailed(Len(call.log))
                    /\ \A a \in 0..(call.n - 1) :
                         flash[SlaveOf(call.off)][PosOf(call.off) + a] = FF
            /\ (call.rv # 0 /\ EraseTxs = {})
                 => flash = call.pre
    /\ (call.op \in {"page_wr", "page_rmw"})
         => /\ "erasealign" \notin call.warn
            /\ \A e \in EraseTxs :
                 /\ EraseSize(call.log[e].op) # 0
                 /\ DataPos(call.log[e]) % EraseSize(call.log[e].op) = 0

\* a 32KB erase in the second sector. At first the write of the extended
\* address register fails and the call returns the error with no write
\* enable and no erase after it; asked again, all steps go through
C29_Witness ==
    /\ prev.op = "erase" /\ prev.rv # 0
    /\ prev.log[Len(prev.log)].op = QSPI_CMD_EXTENDED_ADDRESS_REG_WRITE
    /\ ~prev.log[Len(prev.log)].sent
    /\ call.op = "erase" /\ call.rv = 0
    /\ call.off = SECTOR_BYTES /\ call.n = QSPI_LARGE_PAGE_SIZE
    /\ Commands(call.log) =
         << <<QSPI_CMD_WRITE_ENABLE, 0>>,
            <<QSPI_CMD_EXTENDED_ADDRESS_REG_WRITE, 1>>,
            <<QSPI_CMD_WRITE_ENABLE, 0>>,
            <<QSPI_CMD_32KB_SUBSECTOR_ERASE, 0>> >>
    /\ IsStatusRead(call.log[1]) /\ IsStatusRead(call.log[Len(call.log)])

----------------------------------------------------------------------------
(* C30: qspi_fifo_rd issues one read transaction of exactly 4 header +   *)
(* 4 dummy + payload bytes, where payload is the smaller of the count    *)
(* asked for and the FIFO depth less 8; it hands its caller exactly the  *)
(* payload bytes the flash holds from the offset on and reports payload  *)
(* as the count transferred.                                             *)
FifoRdPayload == Min(call.n, qspi_fifo_depth - HEADER_LEN - READ_DUMMY_LEN)

C30_FifoRdOneTransaction ==
    (call.op = "fifo_rd")
    => /\ Len(DataLog) = 1
       /\ DataLog[1].op = QSPI_CMD_QUAD_READ
       /\ DataLog[1].len = HEADER_LEN + READ_DUMMY_LEN + FifoRdPayload
       /\ DataLog[1].len <= qspi_fifo_depth
       /\ call.rv = 0
       /\ call.len = FifoRdPayload
       /\ call.ubuf = [i \in 1..FifoRdPayload |->
                          call.pre[0][(PosOf(call.off) + i - 1) % flash_size]]

----------------------------------------------------------------------------
(* C31: qspi_fifo_wr programs min(requested, FIFO depth - 4, 128) bytes  *)
(* in one program transaction whose header carries the vendor's program  *)
(* opcode (0x32 for Micron, 0x02 for Macronix) and the 24-bit address;   *)
(* the write enable is the transaction immediately before the program,   *)
(* only status polls follow it, and the count is set to the payload only *)
(* when the header set-up, the write enable, the program and the wait    *)
(* all succeeded: a call that fails leaves the count as it was.          *)
FifoWrPayload == Min(Min(call.n, qspi_fifo_depth - HEADER_LEN), WRITE_MAX_LEN)

C31_FifoWrOneProgram ==
    (call.op = "fifo_wr")
    => /\ Cardinality(ProgramTxs) <= 1
       /\ EraseTxs = {} /\ ReadTxs = {}
       /\ \A j \in ProgramTxs :
            /\ call.log[j].op = IF vendor = 0 THEN 50 ELSE 2
            /\ call.log[j].arg = Addr24(qspi_offset2faddr(call.off))
            /\ call.log[j].n = FifoWrPayload
            /\ call.log[j].len = FifoWrPayload + HEADER_LEN
            /\ call.log[j].len <= qspi_fifo_depth
            /\ j > 1
            /\ call.log[j - 1].op = QSPI_CMD_WRITE_ENABLE /\ ~TxFailed(j - 1)
            /\ \A i \in 1..(j - 1) : ~IsStatusRead(call.log[i]) /\ ~TxFailed(i)
            /\ \A i \in (j + 1)..Len(call.log) : IsStatusRead(call.log[i])
            /\ (~TxFailed(j)) <=> (j < Len(call.log))
       /\ \A j \in 1..Len(call.log) :
            (TxFailed(j) /\ ~IsStatusRead(call.log[j]))
            => j = Len(call.log) /\ call.rv # 0
       /\ (call.rv = 0)
            => /\ ProgramTxs # {}
               /\ IsStatusRead(call.log[Len(call.log)])
               /\ ~TxFailed(Len(call.log))
       /\ \A j \in ProgramTxs :
            (~TxFailed(j))
            => /\ Len(call.log) - j \in 1..BusyRetries
               /\ (call.rv # 0) => Len(call.log) - j = BusyRetries
       /\ (call.rv = 0) => call.len = FifoWrPayload
       /\ (call.rv # 0) => call.len = call.n
       /\ Changed(0) \subseteq
            {(PosOf(call.off) + i) % flash_size : i \in 0..(FifoWrPayload - 1)}

\* 129 bytes asked of a Macronix chip behind a FIFO of 140 bytes: 128 are
\* programmed with opcode 0x02 after a write enable, and 128 is the count
C31_Witness ==
    /\ call.op = "fifo_wr" /\ call.rv = 0
    /\ vendor = 1 /\ qspi_fifo_depth = WRITE_MAX_LEN + 3 * HEADER_LEN
    /\ call.n = WRITE_MAX_LEN + 1 /\ call.len = WRITE_MAX_LEN
    /\ \E j \in ProgramTxs :
         /\ call.log[j].op = QSPI_CMD_PAGE_PROGRAM /\ call.log[j].n = WRITE_MAX_LEN
         /\ call.log[j - 1].op = QSPI_CMD_WRITE_ENABLE
         /\ j < Len(call.log)

----------------------------------------------------------------------------
(* C32: every qspi_fifo_rd that a stream read, a kernel read or the      *)
(* front and back reads of qspi_page_rmw make is asked for a range that  *)
(* ends at or before QSPI_PAGE_ROUNDUP of its offset: the WARN_ON at the *)
(* head of qspi_fifo_rd never fires, and no quad read goes out for bytes *)
(* on both sides of a 4KB page boundary.                                 *)
C32_ReadsStayInPage ==
    (call.op \in {"read", "kread", "write", "page_rmw"})
    => /\ "page" \notin call.warn
       /\ \A j \in ReadTxs :
            DataPos(call.log[j]) + DataLen(call.log[j])
                <= QSPI_PAGE_ALIGN(DataPos(call.log[j])) + QSPI_PAGE_SIZE

\* a read from the last byte of one page to the first byte of the page
\* after the next: one quad read ends at the first boundary, the next
\* starts on it
C32_Witness ==
    /\ call.op \in {"read", "kread"} /\ call.rv >= 0 /\ ~call.locked
    /\ call.off = QSPI_PAGE_SIZE - 1 /\ call.n = QSPI_PAGE_SIZE + 2
    /\ Cardinality(ReadTxs) >= 3
    /\ \E j \in ReadTxs :
         /\ DataPos(call.log[j]) = QSPI_PAGE_SIZE - 1 /\ DataLen(call.log[j]) = 1
         /\ \E i \in ReadTxs : i > j /\ DataPos(call.log[i]) = QSPI_PAGE_SIZE
    /\ "page" \notin call.warn

----------------------------------------------------------------------------
(* C33: whenever qspi_tx has returned, whether with success, with an     *)
(* error bit seen or with a timeout, the transfer-inhibit bit of the     *)
(* control register is set again, so that the controller is not left     *)
(* shifting after the call. (qspi_transaction writes the control         *)
(* register nowhere after qspi_tx, so the register after a transaction   *)
(* that activated a slave is the register qspi_tx left.)                 *)
C33_TxInhibitsAgain ==
    (lowop.kind = "transaction" /\ lowop.activated)
    => QSPI_CR_TRANS_INHIBIT \in qspi_regs.ctrl

----------------------------------------------------------------------------
(* The FIFO reset at the head of a transaction *)

IsResetWrite(a) ==
    a.reg = "cr" /\ a.ctrl \cap {QSPI_CR_TXFIFO_RESET, QSPI_CR_RXFIFO_RESET} # {}

\* the transaction just made returned from its qspi_reset_fifo with a
\* timeout: it came back with -ETIMEDOUT before a slave was activated
ResetTimedOut(op) == op.ret = -ETIMEDOUT /\ ~op.activated

(* C34: qspi_reset_fifo writes no register when the status shows both    *)
(* FIFOs empty and neither full, and returns 0; otherwise it writes the  *)
(* control register once, with both FIFO reset bits added to the value   *)
(* it held, and returns 0 when the FIFOs are then seen empty and         *)
(* -ETIMEDOUT when they are not. (A step of the model is one             *)
(* transaction, which starts with qspi_reset_fifo on the registers the   *)
(* step finds.)                                                          *)
C34_ResetFifo ==
    [][ (lowop'.kind = "transaction")
        => /\ FifoEmpty(qspi_regs)
                => /\ \A i \in 1..Len(lowop'.trace) : ~IsResetWrite(lowop'.trace[i])
                   /\ ~ResetTimedOut(lowop')
                   /\ lowop'.trace # <<>> => lowop'.trace[1].reg = "ssr"
           /\ ~FifoEmpty(qspi_regs)
                => /\ Len(lowop'.trace) >= 1
                   /\ lowop'.trace[1] =
                        RegAccess("cr", qspi_regs.ctrl \cup {QSPI_CR_TXFIFO_RESET,
                                                            QSPI_CR_RXFIFO_RESET}, 0)
                   /\ \A i \in 2..Len(lowop'.trace) : ~IsResetWrite(lowop'.trace[i])
                   /\ ResetTimedOut(lowop') <=> ~lowop'.env.reset_ok
                   /\ ResetTimedOut(lowop')
                        => /\ Len(lowop'.trace) = 1
                           /\ ~FifoEmpty(qspi_regs')
                           /\ qspi_regs'.txn = qspi_regs.txn
                           /\ qspi_regs'.rxn = qspi_regs.rxn
                   /\ (lowop'.trace[1].reg = "cr" /\ Len(lowop'.trace) > 1)
                        => lowop'.trace[2].reg = "ssr"
      ]_vars

\* a transaction that found a byte left in the TX FIFO: the reset bits
\* are written first, the FIFOs come out empty and the transaction goes on
C34_Witness ==
    /\ lowop.kind = "transaction" /\ lowop.ret = 0 /\ lowop.activated
    /\ Len(lowop.trace) > 1
    /\ IsResetWrite(lowop.trace[1])
    /\ {QSPI_CR_TXFIFO_RESET, QSPI_CR_RXFIFO_RESET} \subseteq lowop.trace[1].ctrl
    /\ lowop.trace[2].reg = "ssr"
    /\ FifoEmpty(qspi_regs)

----------------------------------------------------------------------------
(* C35: qspi_get_fifo_depth returns the number of filler bytes it pushed *)
(* until the status showed TX-full, which is the capacity of the TX      *)
(* FIFO; it returns 0 when its first FIFO reset fails or an error bit    *)
(* shows; and when it returns a depth the control register holds the     *)
(* value it held before the pushes and the FIFOs are reset: both empty.  *)
(* (After the probe qspi_fifo_depth is the value returned and the        *)
(* registers are as qspi_get_fifo_depth left them.)                      *)
C35_FifoDepthDiscovery ==
    (call.op = "probe")
    => /\ qspi_fifo_depth \in {0, qspi_regs.cap}
       /\ (qspi_fifo_depth = 0)
            => (qspi_has_err(qspi_regs) \/ ~FifoEmpty(qspi_regs))
       /\ (qspi_fifo_depth # 0)
            => /\ qspi_regs.ctrl =
                    QSPI_CR_INIT_STATE \ {QSPI_CR_TXFIFO_RESET, QSPI_CR_RXFIFO_RESET}
               /\ ~qspi_has_err(qspi_regs)
               /\ FifoEmpty(qspi_regs)

----------------------------------------------------------------------------
(* C36: attach sets the control register, finds the FIFO depth, waits    *)
(* for the chip to be ready and reads the ID, in that order, and returns *)
(* an error at the first of these that fails, without running the later  *)
(* ones. After an attach that returned 0 the cached sector is the        *)
(* sentinel, so in the first read or write after it a write enable and   *)
(* the extended-address write of its sector go out before the first      *)
(* addressed command.                                                    *)
IsIdRead(e) == e.op = QSPI_CMD_IDCODE_READ

\* entries of the log that carry an address: quad read, program, erase
AddressedIn(log) == {j \in 1..Len(log) : IsData(log[j]) \/ IsErase(log[j])}

First(S) == CHOOSE x \in S : \A y \in S : x <= y

\* a write enable and the extended-address write of the sector entry j is
\* for went out before entry j, and the chip holds that sector
SelectedBefore(log, j) ==
    /\ \E i \in 2..(j - 1) :
         /\ log[i - 1].op = QSPI_CMD_WRITE_ENABLE /\ log[i - 1].sent
         /\ log[i].op = QSPI_CMD_EXTENDED_ADDRESS_REG_WRITE /\ log[i].sent
         /\ log[i].arg = log[j].sec
    /\ log[j].ear = log[j].sec

----------------------------------------------------------------------------
(* C37: a read, a kernel read or a write that took io_lock gives it back *)
(* before it returns, whether it went through, found the chip not ready, *)
(* had a transaction fail or a user copy fail; so with a fair scheduler  *)
(* every caller that waits for the lock gets it: a caller that waits for *)
(* the lock comes to the end of its call, and does not hold the lock     *)
(* then.                                                                 *)
C37_LockReleased ==
    \A t \in Threads : (pc[t] = "lock") ~> (pc[t] = "done" /\ io_lock # t)

----------------------------------------------------------------------------
(* C38: a read or a kernel read, whether it goes through or fails, sends *)
(* no erase and no program command: its transactions are status reads,   *)
(* the write enable with the extended-address write that selects a       *)
(* sector, and quad reads; so the content of the flash after the call is *)
(* the content before it.                                                *)
IsSectorSelect(e) == e.op = QSPI_CMD_EXTENDED_ADDRESS_REG_WRITE

C38_ReadsLeaveFlash ==
    (call.op \in {"read", "kread"})
    => /\ \A j \in 1..Len(call.log) :
            /\ \/ IsStatusRead(call.log[j])
               \/ call.log[j].op = QSPI_CMD_WRITE_ENABLE
               \/ IsSectorSelect(call.log[j])
               \/ call.log[j].op = QSPI_CMD_QUAD_READ
            /\ ~IsErase(call.log[j]) /\ ~IsProgram(call.log[j])
            /\ (call.log[j].op = QSPI_CMD_WRITE_ENABLE /\ j < Len(call.log))
                 => IsSectorSelect(call.log[j + 1])
            /\ IsSectorSelect(call.log[j])
                 => (j > 1 /\ call.log[j - 1].op = QSPI_CMD_WRITE_ENABLE)
       /\ flash = call.pre

\* a read that selected the sector and failed at its quad read, and the
\* same read again, which goes through with two quad reads: the flash is
\* what it was before the two
C38_Witness ==
    /\ prev.op = "read" /\ prev.rv < 0
    /\ \E j \in 2..Len(prev.log) :
         /\ IsSectorSelect(prev.log[j - 1]) /\ prev.log[j - 1].sent
         /\ prev.log[j].op = QSPI_CMD_QUAD_READ /\ ~prev.log[j].sent
    /\ call.op = "read" /\ call.rv > 0
    /\ Cardinality(ReadTxs) >= 2
    /\ flash = prev.pre

====
